---- MODULE Spec2Model ----
(***************************************************************************)
(* Print job queues of Inkoro.                                             *)
(*                                                                         *)
(* Two independent queue objects are modelled:                             *)
(*   - the batch print queue, class PrintQueue of                          *)
(*     src/src/printer/printerManager.js (lines 350-596), driven by the    *)
(*     setInterval timer that calls _processBatches; its variables start   *)
(*     with "b";                                                           *)
(*   - the persistent print queue, class PrintQueue of                     *)
(*     src/src/print/queue.js, which saves itself to data/queue.json; its  *)
(*     variables start with "p".                                           *)
(* JavaScript runs every handler to its next await without interruption,   *)
(* so one action is the code between two awaits of one call.               *)
(***************************************************************************)
EXTENDS Integers, Sequences, FiniteSets, TLC

\* ------------------------------------------------------------------ bounds
\* Number of jobs ever added to the batch queue (caps nextJobId).
MaxJobs == 2
\* Number of overlapping invocations of a tick that are tracked (timer
\* firings; each invocation has its own local variables).
NumTicks == 2

\* Number of listeners subscribed to the events of the batch queue.
MaxListeners == 2

\* Number of sockets the WhatsApp client ever makes.
MaxSockets == 3
\* Number of connect() calls of the WhatsApp client that wait for the
\* authentication state at the same time.
MaxConnects == 2
\* Number of pending reconnection timers of the WhatsApp client.
MaxReconnectTimers == 2

\* Number of jobs ever added to the persistent queue.
MaxPJobs == 2
\* Number of calls of addJob, retryJob, removeJob and acceptJob that wait
\* for their saveQueue at the same time (the saves of a tick and of
\* initialize run beside them).
MaxCalls == 1
\* Largest retryCount the persistent queue is driven to (the code has no cap).
MaxRetry == 4
\* Number of calls of addJob, retryJob, removeJob and acceptJob that change
\* the persistent queue once a second job has been added.
MaxOps == 3
\* The same number while only one job has been added.
MaxOpsOneJob == 5
\* Number of faults: a failed writeFile, or the process being stopped and
\* started again.
MaxFaults == 1
\* Number of pending setTimeout callbacks of processNextJob that are tracked.
MaxTimers == 1

\* JobManager: the jobs that createJob may create
MaxManagedJobs == 2

\* JobBatcher: the jobs that addToBatch may be given
MaxBatcherJobs == 6

\* QRManager: the getQR and generateNewQR calls, and the QR codes the
\* client may emit
MaxQRRequests == 4
MaxQRs == 2

\* Pending jobs of the WhatsApp client: the documents that are received,
\* and the minutes the clock runs
MaxPendingJobs == 3
MaxMinutes == 8

Ticks == 1..NumTicks

VARIABLES
    bJobs,          \* job objects by id (every object ever created)
    bPresent,       \* keys of this.jobs (the Map)
    bNextJobId,     \* this.nextJobId
    bIsProcessing,  \* this.isProcessing
    bTick,          \* locals of each invocation of _processBatches
    bPrinters,      \* printerManager: availablePrinters and defaultPrinter
    bCancelledQ,    \* history: jobs cancelled while queued, not retried since
    bCall,          \* the call made by the last step and how it ended
    bEmitted,       \* the events emitted by the last step, in order
    bListeners,     \* the listeners of the queue, in the order of their on()
    bMissed,        \* the events of the last step that a listener subscribed
                    \* after one that threw did not receive
    bStamped        \* the jobs whose updatedAt the last step assigned

bVars == <<bJobs, bPresent, bNextJobId, bIsProcessing, bTick, bPrinters,
           bCancelledQ, bCall, bEmitted, bListeners, bMissed, bStamped>>

VARIABLES
    pQueue,         \* this.queue
    pCompleted,     \* this.completedJobs
    pIsProcessing,  \* this.isProcessing
    pFile,          \* the content of data/queue.json
    pWrites,        \* fs.writeFile calls in flight, each with its caller
    pTick,          \* locals of each invocation of processNextJob
    pTimers,        \* pending setTimeout(() => this.processNextJob(), 1000)
    pInit,          \* where initialize() is
    pNextId,        \* stands for Date.now() + Math.random(): a fresh id
    pFaults,        \* history: how many faults happened
    pOps,           \* history: how many calls changed the queue
    pAcked,         \* history: ids whose addJob returned the job, less the
                    \* ids given to removeJob since
    pRejected,      \* history: ids whose addJob threw
    pPrinted,       \* history: the jobs for which printDocument was called
                    \* since their addJob or their last retryJob
    pCall,          \* the call made by the last step and how it went on
    pEmitted        \* the events emitted by the last step, in order

pVars == <<pQueue, pCompleted, pIsProcessing, pFile, pWrites, pTick, pTimers,
           pInit, pNextId, pFaults, pOps, pAcked, pRejected, pPrinted, pCall,
           pEmitted>>

VARIABLES
    wIsConnecting,  \* this.isConnecting
    wIsConnected,   \* this.isConnected
    wStatus,        \* this.connectionStatus
    wAttempts,      \* this.reconnectAttempts
    wSockets,       \* the sockets made by makeWASocket, in order; the
                    \* last one is this.client
    wConnects,      \* connect() calls that wait for useMultiFileAuthState
    wTimers,        \* pending setTimeout(() => this.connect(), ...)
    wClient,        \* this.client: the socket's place in wSockets, 0 for null
    wLogouts,       \* forceQR calls that wait for this.client.logout()
    wPendingJobs,   \* this.pendingJobs: sender -> the job and the minute
                    \* it was stored, NoPending for no entry
    wPendingTimers, \* the setTimeout callbacks of setPendingJob that have
                    \* not run: the sender, the job whose call made the
                    \* timer, the minute it is due
    wTexts,         \* senders whose text message has read its pending job
                    \* and waits for printQueue.addJob and sendMessage
    wDocuments,     \* the documents received so far
    wNow,           \* the clock, in minutes
    wCall           \* the connect() call made by the last step

wVars == <<wIsConnecting, wIsConnected, wStatus, wAttempts, wSockets,
           wConnects, wTimers, wClient, wLogouts, wPendingJobs,
           wPendingTimers, wTexts, wDocuments, wNow, wCall>>

VARIABLES
    jJobs,          \* the job objects of JobManager, by id
    jActiveJobs,    \* this.activeJobs: the ids it holds
    jJobHistory,    \* this.jobHistory: the ids it holds, in Map order
    jAwaiting,      \* the operations and jobs for which a call awaits
                    \* printQueue.addJob
    jCall           \* the call made by the last step and how it went on

jVars == <<jJobs, jActiveJobs, jJobHistory, jAwaiting, jCall>>

VARIABLES
    kBatches,       \* this.batches: key, jobs and timeout, in Map order
    kTimers,        \* the setTimeout timers that are set and not cleared
    kNextJob,       \* the number of the next job given to addToBatch
    kCall           \* the call made by the last step, the combined jobs it
                    \* gave to printQueue.addJob and the jobs it cancelled

kVars == <<kBatches, kTimers, kNextJob, kCall>>

VARIABLES
    qCurrentQR,     \* this.currentQR (0 for null)
    qIsGenerating,  \* this.isGenerating
    qPending,       \* this.pendingRequests: the calls whose promise waits
    qWaitTimers,    \* the waitForQR timers that are set
    qGens,          \* the generateNewQR calls in progress and where they are
    qExpiry,        \* this.qrTimeout is set
    qUpdated,       \* this.lastQRUpdate is not 0
    qNextReq,       \* the number of the next getQR or generateNewQR call
    qCall           \* the call made by the last step and whether it called
                    \* whatsappClient.forceQR

qVars == <<qCurrentQR, qIsGenerating, qPending, qWaitTimers, qGens, qExpiry,
           qUpdated, qNextReq, qCall>>

vars == <<bVars, pVars, wVars, jVars, kVars, qVars>>

\* this.emit(type, {jobId, status}); 'updated' carries the whole queue.
Event(type, id, status) == [type |-> type, jobId |-> id, status |-> status]
Updated == Event("updated", 0, "")
\* A call of a public operation: "ok" when it went past its checks, "throw"
\* or "null" when it ended there.
Call(op, id, outcome) == [op |-> op, id |-> id, outcome |-> outcome]
NoCall == Call("", 0, "")

\* ------------------------------------------------- printerManager.js 6-235
\* An entry of availablePrinters: printerConfig plus the discovered state.
Epson3250 == [name |-> "Epson 3250", brand |-> "epson", color |-> TRUE,
              available |-> TRUE]
Canon6565 == [name |-> "Canon 6565", brand |-> "canon", color |-> FALSE,
              available |-> TRUE]
PdfPrinter == "Microsoft Print to PDF"

\* What initializePrinter (discoverPrinters, then the default printer) can
\* leave behind: the printers in discovery order and the default printer.
Uninitialized == [init |-> FALSE, avail |-> <<>>, default |-> ""]
PrinterEnvs ==
    { [init |-> TRUE, avail |-> <<>>, default |-> PdfPrinter],
      [init |-> TRUE, avail |-> <<Canon6565>>, default |-> "Canon 6565"],
      [init |-> TRUE, avail |-> <<Canon6565, Epson3250>>,
       default |-> "Canon 6565"] }

\* job.data.instructions as the batch queue reads it.  has = FALSE is a job
\* submitted without instructions; "" is an absent field; colorPages is the
\* length of the colorPages array; copies absent counts as 1.
NoInstr == [has |-> FALSE, priority |-> "", paperType |-> "", quality |-> "",
            colorPages |-> 0, copies |-> 1]
PlainInstr == [has |-> TRUE, priority |-> "normal", paperType |-> "",
               quality |-> "", colorPages |-> 0, copies |-> 1]
PhotoInstr == [has |-> TRUE, priority |-> "high", paperType |-> "photo",
               quality |-> "", colorPages |-> 1, copies |-> 1]
BInstrs == {NoInstr, PlainInstr, PhotoInstr}
Priorities == {"high"}

needsColor(instr) == instr.colorPages > 0 \/ instr.paperType = "photo"

selectBestPrinter(instr, env) ==
    LET suitable == SelectSeq(env.avail,
                       LAMBDA p : p.available /\ (needsColor(instr) => p.color))
        epson == SelectSeq(suitable, LAMBDA p : p.brand = "epson")
        canon == SelectSeq(suitable, LAMBDA p : p.brand = "canon")
    IN  IF Len(suitable) = 0 THEN env.default
        ELSE IF needsColor(instr) /\ Len(epson) > 0 THEN epson[1].name
        ELSE IF ~needsColor(instr) /\ Len(canon) > 0 THEN canon[1].name
        ELSE suitable[1].name

\* `${printer}:${paperType || 'default'}:${quality || 'normal'}`
batchKey(instr, env) ==
    <<selectBestPrinter(instr, env),
      IF instr.paperType = "" THEN "default" ELSE instr.paperType,
      IF instr.quality = "" THEN "normal" ELSE instr.quality>>

\* ------------------------------------------- batch queue: helper operators
IdleTick == [pc |-> "idle", todo |-> <<>>, batches |-> <<>>, cur |-> 0]

NewJob(instr) == [status |-> "queued", progress |-> 0, error |-> "",
                  instr |-> instr]

\* The ids of a set in Map iteration order: insertion order, which is id
\* order because ids only grow and a key is never set twice.
RECURSIVE SeqOfSet(_)
SeqOfSet(S) ==
    IF S = {} THEN <<>>
    ELSE LET m == CHOOSE x \in S : \A y \in S : x <= y
         IN  <<m>> \o SeqOfSet(S \ {m})

\* Array.from(this.jobs.values()).filter(job => job.status === 'queued')
queuedJobs == SeqOfSet({j \in bPresent : bJobs[j].status = "queued"})

\* _createBatches with a new batch for every job, whatever its key.
addToBatchesAlwaysNew(bs, key, j) == Append(bs, [key |-> key, jobs |-> <<j>>])

\* batches.has(key) ? batches.get(key).push(job) : batches.set(key, [job]);
\* a Map keeps the order in which its keys were first set.
addToBatches(bs, key, j) ==
    IF \E i \in 1..Len(bs) : bs[i].key = key
    THEN [i \in 1..Len(bs) |->
            IF bs[i].key = key THEN [bs[i] EXCEPT !.jobs = Append(@, j)]
            ELSE bs[i]]
    ELSE Append(bs, [key |-> key, jobs |-> <<j>>])

\* _createBatches: the jobs after planning, and the batches.  A job without
\* instructions makes `job.data.instructions.paperType` throw; the catch
\* marks it failed.
RECURSIVE createBatches(_, _, _, _)
createBatches(js, todo, bs, env) ==
    IF todo = <<>> THEN [jobs |-> js, batches |-> bs]
    ELSE LET j == Head(todo)
         IN  IF js[j].instr.has
             THEN createBatches(js, Tail(todo),
                                addToBatches(bs, batchKey(js[j].instr, env), j),
                                env)
             ELSE createBatches(
                    [js EXCEPT ![j].status = "failed",
                               ![j].error = "Failed to determine printer or batch."],
                    Tail(todo), bs, env)

\* A job object that was deleted from the Map and that no running tick
\* still holds is unreachable; all such objects are kept as one value.
Gone == [status |-> "removed", progress |-> 0, error |-> "", instr |-> NoInstr]

RECURSIVE idsOfBatches(_)
idsOfBatches(bs) ==
    IF bs = <<>> THEN {}
    ELSE {bs[1].jobs[i] : i \in 1..Len(bs[1].jobs)} \cup idsOfBatches(Tail(bs))

heldBy(tk) ==
    {tk.cur} \cup {tk.todo[i] : i \in 1..Len(tk.todo)} \cup idsOfBatches(tk.batches)

reachable(js, present, ticks) ==
    [j \in DOMAIN js |->
        IF j \in present \/ \E t \in DOMAIN ticks : j \in heldBy(ticks[t])
        THEN js[j] ELSE Gone]

failJobKeepsStatus(js, j, error) ==
    [js EXCEPT ![j].error = error]

\* The catch block of _executeJob.
failJob(js, j, error) ==
    [js EXCEPT ![j].status = "failed", ![j].error = error]

\* The end of the try block of _executeJob.
completeJob(js, j) ==
    [js EXCEPT ![j].status = "completed", ![j].progress = 100]

\* EventEmitter.emit calls the listeners of the event (bListeners holds
\* those of 'statusUpdated') one after the other, in the order
\* of their on(); an exception thrown by a listener leaves emit at once, so
\* the listeners after it are not called.  A delivery is described by the
\* place of the listener that throws, 0 when none does.
ThrowPoints == {0} \cup {i \in 1..Len(bListeners) : bListeners[i] = "faulty"}
missed(i, e) == IF i > 0 /\ i < Len(bListeners) THEN <<e>> ELSE <<>>
ListenerError == "listener error"

\* How a stretch of _processBatches that runs without waiting can end: the
\* locals of the invocation, the job objects, isProcessing, and what the
\* stretch emitted, withheld from later listeners and stamped.
Outcome(tk, js, busy, ev, ms, st) ==
    [tick |-> tk, jobs |-> js, busy |-> busy, emitted |-> ev, missed |-> ms,
     stamped |-> st]

\* _processBatches without its finally block: isProcessing stays true.
endOfTickWithoutFinally(js, ev, ms, st) ==
    Outcome(IdleTick, js, TRUE, ev, ms, st)

\* An exception leaves _executeJob: the catch and the finally block of
\* _processBatches end the invocation.  So does the end of the loops.
endOfTick(js, ev, ms, st) == Outcome(IdleTick, js, FALSE, ev, ms, st)

RECURSIVE startNextOrFinish(_, _, _, _, _, _)
RECURSIVE afterCatch(_, _, _, _, _, _, _, _)

abortAfterFailure(js, bs, busy, ev, ms, st) == {endOfTick(js, ev, ms, st)}

\* _executeJob returned from its catch block: `for (const job of
\* jobsInBatch)` and the loop over the batches go on.
afterFailure(js, bs, busy, ev, ms, st) ==
    startNextOrFinish(js, bs, busy, ev, ms, st)

\* The loops of _processBatches from the batches bs on: the first
\* statements of _executeJob for the next job (up to its first await), or
\* the finally block when no job is left.
startNextOrFinish(js, bs, busy, ev, ms, st) ==
    IF bs = <<>> THEN {endOfTick(js, ev, ms, st)}
    ELSE LET j == Head(bs[1].jobs)
             rest == IF Len(bs[1].jobs) = 1 THEN Tail(bs)
                     ELSE [bs EXCEPT ![1].jobs = Tail(@)]
             js1 == [js EXCEPT ![j].status = "processing"]
             e == Event("statusUpdated", j, "processing")
         IN  UNION { IF i = 0
                     THEN {Outcome([pc |-> "doc", todo |-> <<>>,
                                    batches |-> rest, cur |-> j],
                                   js1, busy, Append(ev, e), ms, st \cup {j})}
                     ELSE afterCatch(js1, j, ListenerError, rest, busy,
                                     Append(ev, e), ms \o missed(i, e),
                                     st \cup {j})
                   : i \in ThrowPoints }

\* The catch block of _executeJob for job j, and what follows it.
afterCatch(js, j, error, bs, busy, ev, ms, st) ==
    LET js1 == failJob(js, j, error)
        e == Event("statusUpdated", j, "failed")
    IN  UNION { IF i = 0
                THEN afterFailure(js1, bs, busy, Append(ev, e), ms, st \cup {j})
                ELSE {endOfTick(js1, Append(ev, e), ms \o missed(i, e),
                                st \cup {j})}
              : i \in ThrowPoints }

\* The end of the try block of _executeJob for job j, and what follows it.
afterTry(js, j, bs, busy) ==
    LET js1 == completeJob(js, j)
        e == Event("statusUpdated", j, "completed")
    IN  UNION { IF i = 0
                THEN startNextOrFinish(js1, bs, busy, <<e>>, <<>>, {j})
                ELSE afterCatch(js1, j, ListenerError, bs, busy, <<e>>,
                                missed(i, e), {j})
              : i \in ThrowPoints }

\* Invocation t of _processBatches goes on in one of the ways os.
continueTick(t, os) ==
    \E o \in os :
        /\ bTick' = [bTick EXCEPT ![t] = o.tick]
        /\ bJobs' = reachable(o.jobs, bPresent, bTick')
        /\ bIsProcessing' = o.busy
        /\ bEmitted' = o.emitted
        /\ bMissed' = o.missed
        /\ bStamped' = o.stamped

priorityLockedNever(job) == FALSE

\* `if (job.status === 'processing') throw` of changeJobPriority
priorityLocked(job) == job.status = "processing"

busyGuardOff == FALSE

\* `if (this.isProcessing) return;` of _processBatches
busyGuard == bIsProcessing

\* ------------------------------------------------ batch queue: operations
BInit ==
    /\ bJobs = <<>>
    /\ bPresent = {}
    /\ bNextJobId = 1
    /\ bIsProcessing = FALSE
    /\ bTick = [t \in Ticks |-> IdleTick]
    /\ bPrinters = Uninitialized
    /\ bCancelledQ = {}
    /\ bCall = NoCall
    /\ bEmitted = <<>>
    /\ bListeners = <<>>
    /\ bMissed = <<>>
    /\ bStamped = {}

\* The last statements of a public operation: this.emit('statusUpdated',
\* e), then return.  A listener that throws makes the operation throw
\* after its changes.
emitAndReturn(op, id, e) ==
    \E i \in ThrowPoints :
        /\ bCall' = Call(op, id, IF i = 0 THEN "ok" ELSE "throw")
        /\ bEmitted' = <<e>>
        /\ bMissed' = missed(i, e)

\* An operation that throws at one of its checks.
throwAtCheck(op, id) ==
    /\ bCall' = Call(op, id, "throw")
    /\ bEmitted' = <<>>
    /\ bMissed' = <<>>
    /\ bStamped' = {}

Batch_addJob(instr) ==
    /\ bNextJobId <= MaxJobs
    /\ bJobs' = Append(bJobs, NewJob(instr))
    /\ bPresent' = bPresent \cup {bNextJobId}
    /\ bNextJobId' = bNextJobId + 1
    /\ bCall' = Call("addJob", bNextJobId, "ok")
    /\ bEmitted' = <<Event("jobAdded", bNextJobId, "queued")>>
    /\ bMissed' = <<>>
    /\ bStamped' = {bNextJobId}
    /\ UNCHANGED <<bIsProcessing, bTick, bPrinters, bCancelledQ, bListeners>>
    /\ UNCHANGED <<pVars, wVars, jVars, kVars, qVars>>

\* A timer firing: _processBatches up to its first await that waits for I/O.
\* Once the printer manager is initialized, selectBestPrinter returns
\* without I/O, so planning and the start of the first job follow at once.
Batch_processBatches(t) ==
    /\ bTick[t].pc = "idle"
    /\ UNCHANGED <<bPresent, bNextJobId, bPrinters, bCancelledQ, bListeners>>
    /\ bCall' = NoCall
    /\ IF busyGuard
       THEN /\ bEmitted' = <<>>
            /\ bMissed' = <<>>
            /\ bStamped' = {}
            /\ UNCHANGED <<bJobs, bIsProcessing, bTick>>
       ELSE /\ IF queuedJobs = <<>>
               THEN /\ bIsProcessing' = FALSE
                    /\ bEmitted' = <<>>
                    /\ bMissed' = <<>>
                    /\ bStamped' = {}
                    /\ UNCHANGED <<bJobs, bTick>>
               ELSE IF bPrinters.init
               THEN LET plan == createBatches(bJobs, queuedJobs, <<>>, bPrinters)
                    IN  continueTick(t, startNextOrFinish(plan.jobs,
                                           plan.batches, TRUE, <<>>, <<>>, {}))
               ELSE /\ bIsProcessing' = TRUE
                    /\ bTick' = [bTick EXCEPT ![t] =
                                   [pc |-> "init", todo |-> queuedJobs,
                                    batches |-> <<>>, cur |-> 0]]
                    /\ bEmitted' = <<>>
                    /\ bMissed' = <<>>
                    /\ bStamped' = {}
                    /\ UNCHANGED bJobs
    /\ UNCHANGED <<pVars, wVars, jVars, kVars, qVars>>

\* The first selectBestPrinter of the process waits for initializePrinter
\* (wmic); when it returns, planning goes on with the snapshot taken before.
Batch_createBatches(t) ==
    /\ bTick[t].pc = "init"
    /\ \E env \in (IF bPrinters.init THEN {bPrinters} ELSE PrinterEnvs) :
          /\ bPrinters' = env
          /\ LET plan == createBatches(bJobs, bTick[t].todo, <<>>, env)
             IN  continueTick(t, startNextOrFinish(plan.jobs, plan.batches,
                                    bIsProcessing, <<>>, <<>>, {}))
    /\ bCall' = NoCall
    /\ UNCHANGED <<bPresent, bNextJobId, bCancelledQ, bListeners>>
    /\ UNCHANGED <<pVars, wVars, jVars, kVars, qVars>>

\* _executeJob: documentManager.getDocument returns or throws.
Batch_executeJob_document(t) ==
    /\ bTick[t].pc = "doc"
    /\ \/ /\ bTick' = [bTick EXCEPT ![t].pc = "print"]
          /\ bEmitted' = <<>>
          /\ bMissed' = <<>>
          /\ bStamped' = {}
          /\ UNCHANGED <<bJobs, bIsProcessing>>
       \/ continueTick(t, afterCatch(bJobs, bTick[t].cur, "Document not found",
                                     bTick[t].batches, bIsProcessing,
                                     <<>>, <<>>, {}))
    /\ bCall' = NoCall
    /\ UNCHANGED <<bPresent, bNextJobId, bPrinters, bCancelledQ, bListeners>>
    /\ UNCHANGED <<pVars, wVars, jVars, kVars, qVars>>

\* _executeJob: printerManager.printDocument returns or throws.
Batch_executeJob_print(t) ==
    /\ bTick[t].pc = "print"
    /\ \/ continueTick(t, afterTry(bJobs, bTick[t].cur, bTick[t].batches,
                                   bIsProcessing))
       \/ continueTick(t, afterCatch(bJobs, bTick[t].cur, "Print error",
                                     bTick[t].batches, bIsProcessing,
                                     <<>>, <<>>, {}))
    /\ bCall' = NoCall
    /\ UNCHANGED <<bPresent, bNextJobId, bPrinters, bCancelledQ, bListeners>>
    /\ UNCHANGED <<pVars, wVars, jVars, kVars, qVars>>

Batch_cancelJob(id) ==
    /\ IF id \in bPresent /\ bJobs[id].status \notin {"completed", "failed"}
       THEN /\ bJobs' = [bJobs EXCEPT ![id].status = "cancelled"]
            /\ bCancelledQ' = IF bJobs[id].status = "queued"
                               THEN bCancelledQ \cup {id} ELSE bCancelledQ
            /\ bStamped' = {id}
            /\ emitAndReturn("cancelJob", id,
                             Event("statusUpdated", id, "cancelled"))
       ELSE /\ throwAtCheck("cancelJob", id)
            /\ UNCHANGED <<bJobs, bCancelledQ>>
    /\ UNCHANGED <<bPresent, bNextJobId, bIsProcessing, bTick, bPrinters,
                   bListeners>>
    /\ UNCHANGED <<pVars, wVars, jVars, kVars, qVars>>

Batch_retryJob(id) ==
    /\ IF id \in bPresent /\ bJobs[id].status \in {"failed", "cancelled"}
       THEN /\ bJobs' = [bJobs EXCEPT ![id].status = "queued",
                                      ![id].progress = 0,
                                      ![id].error = ""]
            /\ bCancelledQ' = bCancelledQ \ {id}
            /\ bStamped' = {id}
            /\ emitAndReturn("retryJob", id,
                             Event("statusUpdated", id, "queued"))
       ELSE /\ throwAtCheck("retryJob", id)
            /\ UNCHANGED <<bJobs, bCancelledQ>>
    /\ UNCHANGED <<bPresent, bNextJobId, bIsProcessing, bTick, bPrinters,
                   bListeners>>
    /\ UNCHANGED <<pVars, wVars, jVars, kVars, qVars>>

Batch_changeJobPriority(id, newPriority) ==
    /\ IF id \in bPresent /\ ~priorityLocked(bJobs[id])
       THEN /\ bJobs' = [bJobs EXCEPT ![id].instr.has = TRUE,
                                      ![id].instr.priority = newPriority]
            /\ bStamped' = {id}
            /\ bCall' = Call("changeJobPriority", id, "ok")
            /\ bEmitted' = <<Event("priorityChanged", id, newPriority)>>
            /\ bMissed' = <<>>
       ELSE /\ throwAtCheck("changeJobPriority", id)
            /\ UNCHANGED bJobs
    /\ UNCHANGED <<bPresent, bNextJobId, bIsProcessing, bTick, bPrinters,
                   bCancelledQ, bListeners>>
    /\ UNCHANGED <<pVars, wVars, jVars, kVars, qVars>>

Batch_removeJob(id) ==
    /\ IF id \in bPresent /\ bJobs[id].status # "processing"
       THEN /\ bPresent' = bPresent \ {id}
            /\ bJobs' = reachable(bJobs, bPresent', bTick)
            /\ bStamped' = {}
            /\ emitAndReturn("removeJob", id,
                             Event("statusUpdated", id, "removed"))
       ELSE /\ throwAtCheck("removeJob", id)
            /\ UNCHANGED <<bJobs, bPresent>>
    /\ UNCHANGED <<bNextJobId, bIsProcessing, bTick, bPrinters, bCancelledQ,
                   bListeners>>
    /\ UNCHANGED <<pVars, wVars, jVars, kVars, qVars>>

\* queue.on('statusUpdated', listener): a listener that always returns
\* ("sound") or one that can throw ("faulty").  The listeners are
\* subscribed when the program starts (start() of index.js), before a job
\* is added.  No listener of 'jobAdded' or 'priorityChanged' is modelled.
ListenerKinds == {"sound", "faulty"}

Batch_on(kind) ==
    /\ Len(bListeners) < MaxListeners
    /\ bNextJobId = 1
    /\ bListeners' = Append(bListeners, kind)
    /\ bCall' = NoCall
    /\ bEmitted' = <<>>
    /\ bMissed' = <<>>
    /\ bStamped' = {}
    /\ UNCHANGED <<bJobs, bPresent, bNextJobId, bIsProcessing, bTick,
                   bPrinters, bCancelledQ>>
    /\ UNCHANGED <<pVars, wVars, jVars, kVars, qVars>>

JobIds == 1..MaxJobs

BNext ==
    \/ \E instr \in BInstrs : Batch_addJob(instr)
    \/ \E t \in Ticks : Batch_processBatches(t)
    \/ \E t \in Ticks : Batch_createBatches(t)
    \/ \E t \in Ticks : Batch_executeJob_document(t)
    \/ \E t \in Ticks : Batch_executeJob_print(t)
    \/ \E id \in JobIds : Batch_cancelJob(id)
    \/ \E id \in JobIds : Batch_retryJob(id)
    \/ \E id \in JobIds, p \in Priorities : Batch_changeJobPriority(id, p)
    \/ \E id \in JobIds : Batch_removeJob(id)

\* ------------------------------------------ persistent queue: print/queue.js
\* job.instructions as addJob reads it; colorPages is the array's length.
NormalJob == [priority |-> "normal", colorPages |-> 0, copies |-> 1]
HighJob == [priority |-> "high", colorPages |-> 0, copies |-> 1]
UrgentJob == [priority |-> "urgent", colorPages |-> 1, copies |-> 2]
PInstrs == {NormalJob, UrgentJob}

calculatePriority(instr) ==
    (IF instr.priority = "urgent" THEN 3 ELSE 0)
    + (IF instr.priority = "high" THEN 2 ELSE 0)
    + (IF instr.colorPages > 0 THEN 1 ELSE 0)
    + (IF instr.copies > 1 THEN 1 ELSE 0)

queueItem(id, instr) ==
    [id |-> id, status |-> "pending", priority |-> calculatePriority(instr),
     progress |-> 0, error |-> "", retryCount |-> 0, acceptedBy |-> ""]

\* The file: absent (ENOENT), a complete snapshot, or a truncated or partly
\* written one, which JSON.parse rejects.
NoFile == [state |-> "absent", queue |-> <<>>, completed |-> <<>>]
Partial == [state |-> "partial", queue |-> <<>>, completed |-> <<>>]
\* JSON.stringify({queue, completedJobs}) and back: every field kept here is
\* a string or a number, which JSON returns unchanged.
Snapshot(q, c) == [state |-> "valid", queue |-> q, completed |-> c]

idsOf(q) == {q[i].id : i \in 1..Len(q)}
find(q, id) == CHOOSE i \in 1..Len(q) : q[i].id = id
without(q, id) == SelectSeq(q, LAMBDA j : j.id # id)

\* this.queue.sort((a, b) => b.priority - a.priority): Array.prototype.sort
\* is stable, so jobs of equal priority keep their order.
RECURSIVE insertByPriority(_, _)
insertByPriority(sorted, j) ==
    IF sorted = <<>> THEN <<j>>
    ELSE IF j.priority > Head(sorted).priority THEN <<j>> \o sorted
    ELSE <<Head(sorted)>> \o insertByPriority(Tail(sorted), j)

sortQueueSkipped(q) == q

RECURSIVE sortQueue(_)
sortQueue(q) ==
    IF q = <<>> THEN <<>>
    ELSE insertByPriority(sortQueue(SubSeq(q, 1, Len(q) - 1)), q[Len(q)])

IdlePTick == [pc |-> "idle", job |-> 0]
Write(who, ref, q, c) == [who |-> who, ref |-> ref, snap |-> Snapshot(q, c)]

\* `if (this.isProcessing || this.queue.length === 0) return;`
pBusyGuard(q) == pIsProcessing \/ Len(q) = 0

\* setTimeout in the finally block of processNextJob
schedule(tm) == IF tm < MaxTimers THEN tm + 1 ELSE tm

\* processNextJob called with the queue q, the completed jobs c, the writes
\* w and the timers tm as its caller left them: the guard, the sort, the
\* choice of queue[0] and updateJobStatus(job.id, 'processing') up to the
\* writeFile of its saveQueue.
processNextJob(q, c, w, tm) ==
    /\ pCompleted' = c
    /\ pTimers' = tm
    /\ IF pBusyGuard(q)
       THEN /\ pQueue' = q
            /\ pWrites' = w
            /\ UNCHANGED <<pIsProcessing, pTick>>
       ELSE /\ \E t \in Ticks : pTick[t].pc = "idle"
            /\ LET t == CHOOSE x \in Ticks : pTick[x].pc = "idle"
                   sorted == sortQueue(q)
                   q2 == [sorted EXCEPT ![1].status = "processing",
                                        ![1].error = ""]
               IN  /\ pQueue' = q2
                   /\ pIsProcessing' = TRUE
                   /\ pTick' = [pTick EXCEPT ![t] =
                                  [pc |-> "saveProcessing", job |-> q2[1].id]]
                   /\ pWrites' = w \cup {Write("tick", t, q2, c)}

\* The finally block of processNextJob, reached by invocation t.
finishTick(t, q, c, w) ==
    /\ pQueue' = q
    /\ pCompleted' = c
    /\ pWrites' = w
    /\ pIsProcessing' = FALSE
    /\ pTick' = [pTick EXCEPT ![t] = IdlePTick]
    /\ pTimers' = schedule(pTimers)

\* updateJobStatus(id, status, error) with status 'completed' or 'failed',
\* called by processJob of invocation t: the job leaves the queue for
\* completedJobs and the queue is saved; a job no longer in the queue makes
\* it return null, and processJob ends.
finalStatus(t, id, status, error, q, w) ==
    IF id \in idsOf(q)
    THEN LET job == [q[find(q, id)] EXCEPT !.status = status, !.error = error]
             q2 == without(q, id)
             c2 == Append(pCompleted, job)
         IN  /\ pQueue' = q2
             /\ pCompleted' = c2
             /\ pWrites' = w \cup {Write("tick", t, q2, c2)}
             /\ pTick' = [pTick EXCEPT ![t].pc =
                            IF status = "completed" THEN "saveCompleted"
                            ELSE "saveFailed"]
             /\ UNCHANGED <<pIsProcessing, pTimers>>
    ELSE finishTick(t, q, pCompleted, w)

\* updateJobProgress(id, progress): nothing when the job left the queue.
setProgress(q, id, progress) ==
    IF id \in idsOf(q) THEN [q EXCEPT ![find(q, id)].progress = progress]
    ELSE q

\* The events of one updateJobProgress call: statusUpdated carries the
\* job's status and the new progress.
progressEvents(q, id, progress) ==
    IF id \in idsOf(q)
    THEN <<[type |-> "statusUpdated", jobId |-> id,
            status |-> q[find(q, id)].status, progress |-> progress],
           Updated>>
    ELSE <<>>

PInit ==
    /\ pQueue = <<>>
    /\ pCompleted = <<>>
    /\ pIsProcessing = FALSE
    /\ pFile = NoFile
    /\ pWrites = {}
    /\ pTick = [t \in Ticks |-> IdlePTick]
    /\ pTimers = 0
    /\ pInit = "loading"
    /\ pNextId = 1
    /\ pFaults = 0
    /\ pOps = 0
    /\ pAcked = {}
    /\ pRejected = {}
    /\ pPrinted = {}
    /\ pCall = NoCall
    /\ pEmitted = <<>>

\* ---------------------------------------------- persistent queue: operations
CallsInFlight == {w \in pWrites : w.who \notin {"tick", "init"}}
OpsBudget == IF pNextId <= 2 THEN MaxOpsOneJob ELSE MaxOps
PStatuses == {"pending", "processing", "completed", "failed"}

\* addJob up to the writeFile of its saveQueue.
Persist_addJob(instr) ==
    /\ pNextId <= MaxPJobs
    /\ pOps < MaxOps
    /\ Cardinality(CallsInFlight) < MaxCalls
    /\ pOps' = pOps + 1
    /\ LET q2 == Append(pQueue, queueItem(pNextId, instr))
       IN  /\ pQueue' = q2
           /\ pWrites' = pWrites \cup {Write("addJob", pNextId, q2, pCompleted)}
    /\ pNextId' = pNextId + 1
    /\ pCall' = Call("addJob", pNextId, "ok")
    /\ pEmitted' = <<>>
    /\ UNCHANGED <<pCompleted, pIsProcessing, pFile, pTick, pTimers, pInit,
                   pFaults, pAcked, pRejected>>
    /\ UNCHANGED pPrinted
    /\ UNCHANGED <<bVars, wVars, jVars, kVars, qVars>>

\* retryJob up to the writeFile of its saveQueue; null for a job that is
\* not in completedJobs.
Persist_retryJob(id) ==
    /\ Cardinality(CallsInFlight) < MaxCalls
    /\ pOps < OpsBudget
    /\ pOps' = IF id \in idsOf(pCompleted) THEN pOps + 1 ELSE pOps
    /\ pCall' = Call("retryJob", id,
                     IF id \in idsOf(pCompleted) THEN "ok" ELSE "null")
    /\ pEmitted' = <<>>
    /\ IF id \in idsOf(pCompleted)
       THEN /\ pCompleted[find(pCompleted, id)].retryCount < MaxRetry
            /\ LET old == pCompleted[find(pCompleted, id)]
                   job == [old EXCEPT !.status = "pending", !.error = "",
                                      !.progress = 0,
                                      !.retryCount = old.retryCount + 1]
                   c2 == without(pCompleted, id)
                   q2 == Append(pQueue, job)
               IN  /\ pCompleted' = c2
                   /\ pQueue' = q2
                   /\ pWrites' = pWrites \cup {Write("retryJob", id, q2, c2)}
       ELSE UNCHANGED <<pQueue, pCompleted, pWrites>>
    /\ UNCHANGED <<pIsProcessing, pFile, pTick, pTimers, pInit, pNextId,
                   pFaults, pAcked, pRejected>>
    /\ pPrinted' = IF id \in idsOf(pCompleted) THEN pPrinted \ {id} ELSE pPrinted
    /\ UNCHANGED <<bVars, wVars, jVars, kVars, qVars>>

Persist_removeJob(id) ==
    /\ Cardinality(CallsInFlight) < MaxCalls
    /\ pOps < OpsBudget
    /\ pOps' = IF id \in idsOf(pQueue) \cup idsOf(pCompleted) THEN pOps + 1 ELSE pOps
    /\ pCall' = Call("removeJob", id,
                     IF id \in idsOf(pQueue) \cup idsOf(pCompleted)
                     THEN "ok" ELSE "null")
    /\ pEmitted' = <<>>
    /\ IF id \in idsOf(pQueue) \cup idsOf(pCompleted)
       THEN LET q2 == without(pQueue, id)
                c2 == without(pCompleted, id)
            IN  /\ pQueue' = q2
                /\ pCompleted' = c2
                /\ pWrites' = pWrites \cup {Write("removeJob", id, q2, c2)}
       ELSE UNCHANGED <<pQueue, pCompleted, pWrites>>
    /\ pAcked' = pAcked \ {id}
    /\ UNCHANGED <<pIsProcessing, pFile, pTick, pTimers, pInit, pNextId,
                   pFaults, pRejected>>
    /\ pPrinted' = pPrinted \ {id}
    /\ UNCHANGED <<bVars, wVars, jVars, kVars, qVars>>

acceptableInAnyStatus(q, id) == id \in idsOf(q)

\* The two checks of acceptJob: the job is in the queue (else 'Job not
\* found') and its status is 'pending' or 'queued'.
acceptable(q, id) ==
    id \in idsOf(q) /\ q[find(q, id)].status \in {"pending", "queued"}

Persist_acceptJob(id, acceptedBy) ==
    /\ Cardinality(CallsInFlight) < MaxCalls
    /\ pOps < OpsBudget
    /\ pOps' = IF acceptable(pQueue, id) THEN pOps + 1 ELSE pOps
    /\ pCall' = Call("acceptJob", id,
                     IF acceptable(pQueue, id) THEN "ok" ELSE "throw")
    /\ pEmitted' = <<>>
    /\ IF acceptable(pQueue, id)
       THEN LET q2 == [pQueue EXCEPT ![find(pQueue, id)].status = "processing",
                                     ![find(pQueue, id)].acceptedBy = acceptedBy]
            IN  /\ pQueue' = q2
                /\ pWrites' = pWrites \cup {Write("acceptJob", id, q2, pCompleted)}
       ELSE UNCHANGED <<pQueue, pWrites>>
    /\ UNCHANGED <<pCompleted, pIsProcessing, pFile, pTick, pTimers, pInit,
                   pNextId, pFaults, pAcked, pRejected>>
    /\ UNCHANGED pPrinted
    /\ UNCHANGED <<bVars, wVars, jVars, kVars, qVars>>

\* A pending timer fires and calls processNextJob.
Persist_timer ==
    /\ pTimers > 0
    /\ processNextJob(pQueue, pCompleted, pWrites, pTimers - 1)
    /\ pCall' = NoCall
    /\ pEmitted' = <<>>
    /\ UNCHANGED <<pFile, pInit, pNextId, pFaults, pOps, pAcked, pRejected>>
    /\ UNCHANGED pPrinted
    /\ UNCHANGED <<bVars, wVars, jVars, kVars, qVars>>

\* What a writeFile that ends with an error leaves in the file: nothing
\* changed (the open failed) or a truncated or partly written file.
afterFailedWrite == {pFile, Partial}

\* fs.writeFile of a saveQueue returns, and the code after the await runs.
\* The events a caller of saveQueue emits once the save has returned.
\* acceptJob reads job.status when it emits; st is that status (the job
\* object may have been changed, or have left the arrays, during the save).
emittedAfterSave(w, st) ==
    CASE w.who = "addJob" -> <<Event("jobAdded", w.ref, "pending"), Updated>>
      [] w.who = "retryJob" -> <<Event("statusUpdated", w.ref, "pending"), Updated>>
      [] w.who = "removeJob" -> <<Event("statusUpdated", w.ref, "removed"), Updated>>
      [] w.who = "acceptJob" -> <<Event("statusUpdated", w.ref, st), Updated>>
      [] w.who = "init" -> <<>>
      [] w.who = "tick" ->
           <<Event("statusUpdated", pTick[w.ref].job,
                   CASE pTick[w.ref].pc = "saveProcessing" -> "processing"
                     [] pTick[w.ref].pc = "saveCompleted" -> "completed"
                     [] OTHER -> "failed"),
             Updated>>

Persist_saveQueue_done(w) ==
    /\ w \in pWrites
    /\ pFile' = w.snap
    /\ pCall' = NoCall
    /\ \E st \in (IF w.who = "acceptJob" THEN PStatuses ELSE {""}) :
          pEmitted' = emittedAfterSave(w, st)
    /\ LET ws == pWrites \ {w}
       IN  CASE w.who = "addJob" ->
                  /\ pAcked' = pAcked \cup {w.ref}
                  /\ processNextJob(pQueue, pCompleted, ws, pTimers)
                  /\ UNCHANGED <<pInit, pRejected>>
             [] w.who = "retryJob" ->
                  /\ processNextJob(pQueue, pCompleted, ws, pTimers)
                  /\ UNCHANGED <<pInit, pAcked, pRejected>>
             [] w.who \in {"removeJob", "acceptJob"} ->
                  /\ pWrites' = ws
                  /\ UNCHANGED <<pQueue, pCompleted, pIsProcessing, pTick,
                                 pTimers, pInit, pAcked, pRejected>>
             [] w.who = "init" ->
                  /\ pInit' = "ready"
                  /\ processNextJob(pQueue, pCompleted, ws, pTimers)
                  /\ UNCHANGED <<pAcked, pRejected>>
             [] w.who = "tick" ->
                  /\ IF pTick[w.ref].pc = "saveProcessing"
                     THEN /\ pTick' = [pTick EXCEPT ![w.ref].pc = "doc"]
                          /\ pWrites' = ws
                          /\ UNCHANGED <<pQueue, pCompleted, pIsProcessing,
                                         pTimers>>
                     ELSE finishTick(w.ref, pQueue, pCompleted, ws)
                  /\ UNCHANGED <<pInit, pAcked, pRejected>>
    /\ UNCHANGED <<pNextId, pFaults, pOps>>
    /\ UNCHANGED pPrinted
    /\ UNCHANGED <<bVars, wVars, jVars, kVars, qVars>>

\* fs.writeFile of a saveQueue throws; saveQueue rethrows to its caller.
Persist_saveQueue_failed(w) ==
    /\ w \in pWrites
    /\ pFaults < MaxFaults
    /\ pFaults' = pFaults + 1
    /\ pCall' = NoCall
    /\ pEmitted' = <<>>
    /\ pFile' \in afterFailedWrite
    /\ LET ws == pWrites \ {w}
       IN  CASE w.who = "addJob" ->
                  /\ pRejected' = pRejected \cup {w.ref}
                  /\ pWrites' = ws
                  /\ UNCHANGED <<pQueue, pCompleted, pIsProcessing, pTick,
                                 pTimers, pInit, pAcked>>
             [] w.who \in {"retryJob", "removeJob", "acceptJob"} ->
                  /\ pWrites' = ws
                  /\ UNCHANGED <<pQueue, pCompleted, pIsProcessing, pTick,
                                 pTimers, pInit, pAcked, pRejected>>
             [] w.who = "init" ->
                  \* initialize: the error is not ENOENT
                  /\ pInit' = "ready"
                  /\ pQueue' = <<>>
                  /\ pCompleted' = <<>>
                  /\ pWrites' = ws
                  /\ UNCHANGED <<pIsProcessing, pTick, pTimers, pAcked,
                                 pRejected>>
             [] w.who = "tick" ->
                  \* processJob's catch calls updateJobStatus(id, 'failed');
                  \* when that call was the failing one, the error leaves
                  \* processJob and processNextJob's catch logs it.
                  /\ IF pTick[w.ref].pc \in {"saveProcessing", "saveCompleted"}
                     THEN finalStatus(w.ref, pTick[w.ref].job, "failed",
                                      "write failed", pQueue, ws)
                     ELSE finishTick(w.ref, pQueue, pCompleted, ws)
                  /\ UNCHANGED <<pInit, pAcked, pRejected>>
    /\ UNCHANGED <<pNextId, pOps>>
    /\ UNCHANGED pPrinted
    /\ UNCHANGED <<bVars, wVars, jVars, kVars, qVars>>

\* processJob: documentManager.getDocument returns or throws.
Persist_processJob_document(t) ==
    /\ pTick[t].pc = "doc"
    /\ \/ /\ pQueue' = setProgress(pQueue, pTick[t].job, 50)
          /\ pTick' = [pTick EXCEPT ![t].pc = "print"]
          /\ pPrinted' = pPrinted \cup {pTick[t].job}
          /\ pEmitted' = progressEvents(pQueue, pTick[t].job, 25)
                             \o progressEvents(pQueue, pTick[t].job, 50)
          /\ UNCHANGED <<pCompleted, pIsProcessing, pWrites, pTimers>>
       \/ /\ finalStatus(t, pTick[t].job, "failed", "Document not found",
                         pQueue, pWrites)
          /\ pEmitted' = <<>>
          /\ UNCHANGED pPrinted
    /\ pCall' = NoCall
    /\ UNCHANGED <<pFile, pInit, pNextId, pFaults, pOps, pAcked, pRejected>>
    /\ UNCHANGED <<bVars, wVars, jVars, kVars, qVars>>

\* processJob: printerManager.printDocument returns or throws.
Persist_processJob_print(t) ==
    /\ pTick[t].pc = "print"
    /\ \/ /\ finalStatus(t, pTick[t].job, "completed", "",
                         setProgress(pQueue, pTick[t].job, 100), pWrites)
          /\ pEmitted' = progressEvents(pQueue, pTick[t].job, 100)
       \/ /\ finalStatus(t, pTick[t].job, "failed", "Print error",
                         pQueue, pWrites)
          /\ pEmitted' = <<>>
    /\ pCall' = NoCall
    /\ UNCHANGED <<pFile, pInit, pNextId, pFaults, pOps, pAcked, pRejected>>
    /\ UNCHANGED pPrinted
    /\ UNCHANGED <<bVars, wVars, jVars, kVars, qVars>>

\* What a readFile sees while writeFile calls on the same file are running.
readable == IF pWrites = {} THEN {pFile} ELSE {pFile, Partial}

\* initialize: fs.readFile of loadQueue returns or throws.
Persist_loadQueue ==
    /\ pInit = "loading"
    /\ \E f \in readable :
          CASE f.state = "valid" ->
                 /\ pInit' = "ready"
                 /\ processNextJob(f.queue, f.completed, pWrites, pTimers)
            [] f.state = "absent" ->
                 /\ pInit' = "saving"
                 /\ pQueue' = <<>>
                 /\ pCompleted' = <<>>
                 /\ pWrites' = pWrites \cup {Write("init", 0, <<>>, <<>>)}
                 /\ UNCHANGED <<pIsProcessing, pTick, pTimers>>
            [] f.state = "partial" ->
                 \* JSON.parse throws; initialize empties the queue
                 /\ pInit' = "ready"
                 /\ pQueue' = <<>>
                 /\ pCompleted' = <<>>
                 /\ UNCHANGED <<pIsProcessing, pTick, pTimers, pWrites>>
    /\ pCall' = NoCall
    /\ pEmitted' = <<>>
    /\ UNCHANGED <<pFile, pNextId, pFaults, pOps, pAcked, pRejected>>
    /\ UNCHANGED pPrinted
    /\ UNCHANGED <<bVars, wVars, jVars, kVars, qVars>>

\* The process stops (a crash) and a new one starts: a new PrintQueue whose
\* constructor calls initialize().  A writeFile that was running leaves the
\* file as it was before, as it is now, or partly written.
Persist_restart ==
    /\ pFaults < MaxFaults
    /\ pFile' \in (IF pWrites = {} THEN {pFile} ELSE {pFile, Partial})
    /\ pQueue' = <<>>
    /\ pCompleted' = <<>>
    /\ pIsProcessing' = FALSE
    /\ pWrites' = {}
    /\ pTick' = [t \in Ticks |-> IdlePTick]
    /\ pTimers' = 0
    /\ pInit' = "loading"
    /\ pFaults' = pFaults + 1
    /\ pCall' = NoCall
    /\ pEmitted' = <<>>
    /\ UNCHANGED <<pNextId, pOps, pAcked, pRejected>>
    /\ UNCHANGED pPrinted
    /\ UNCHANGED <<bVars, wVars, jVars, kVars, qVars>>

PJobIds == 1..MaxPJobs

PNext ==
    \/ \E instr \in PInstrs : Persist_addJob(instr)
    \/ \E id \in PJobIds : Persist_retryJob(id)
    \/ \E id \in PJobIds : Persist_removeJob(id)
    \/ \E id \in PJobIds : Persist_acceptJob(id, "operator")
    \/ Persist_timer
    \/ \E w \in pWrites : Persist_saveQueue_done(w)
    \/ \E w \in pWrites : Persist_saveQueue_failed(w)
    \/ \E t \in Ticks : Persist_processJob_document(t)
    \/ \E t \in Ticks : Persist_processJob_print(t)
    \/ Persist_loadQueue
    \/ Persist_restart

\* ------------------------------------------ WhatsApp client: whatsapp/client.js
\* this.maxReconnectAttempts
maxReconnectAttempts == 3

\* lastDisconnect.error.output.statusCode of a 'close' update: 401 (logged
\* out), 515 (restart required), 440 (connection replaced), and 428
\* (connection closed) for the codes without a branch of their own.
StatusCodes == {401, 515, 440, 428}
loggedOut == 401

\* The delay of setPendingJob's timer, 5 * 60 * 1000 ms, in minutes.
autoRemoveAfter == 5

Senders == {"sender1", "sender2"}
NoPending == [job |-> 0, stored |-> 0]
wPendingVars == <<wPendingJobs, wPendingTimers, wTexts, wDocuments, wNow>>

WCall(by, outcome) == [op |-> "connect", by |-> by, outcome |-> outcome]
NoWCall == [op |-> "", by |-> "", outcome |-> ""]

WInit ==
    /\ wIsConnecting = FALSE
    /\ wIsConnected = FALSE
    /\ wStatus = "disconnected"
    /\ wAttempts = 0
    /\ wSockets = <<>>
    /\ wConnects = 0
    /\ wTimers = 0
    /\ wClient = 0
    /\ wLogouts = 0
    /\ wPendingJobs = [s \in Senders |-> NoPending]
    /\ wPendingTimers = {}
    /\ wTexts = {}
    /\ wDocuments = 0
    /\ wNow = 0
    /\ wCall = NoWCall

\* connect() up to `await useMultiFileAuthState`; by is "api" for a call
\* of the server (the Connect button) and "timer" for a call made by a
\* reconnection timer.
connectFrom(by, isConnecting, connectionStatus) ==
    IF isConnecting
    THEN /\ wCall' = WCall(by, "Connection already in progress")
         /\ wIsConnecting' = isConnecting
         /\ wStatus' = connectionStatus
         /\ UNCHANGED wConnects
    ELSE /\ wConnects < MaxConnects
         /\ wIsConnecting' = TRUE
         /\ wStatus' = "connecting"
         /\ wConnects' = wConnects + 1
         /\ wCall' = WCall(by, "ok")

connect(by) == connectFrom(by, wIsConnecting, wStatus)

Whats_connect ==
    /\ connect("api")
    /\ UNCHANGED <<wIsConnected, wAttempts, wSockets, wTimers, wClient,
                   wLogouts>>
    /\ UNCHANGED <<bVars, pVars, jVars, kVars, qVars, wPendingVars>>

\* A reconnection timer fires.
Whats_reconnectTimer ==
    /\ wTimers > 0
    /\ wTimers' = wTimers - 1
    /\ connect("timer")
    /\ UNCHANGED <<wIsConnected, wAttempts, wSockets, wClient, wLogouts>>
    /\ UNCHANGED <<bVars, pVars, jVars, kVars, qVars, wPendingVars>>

\* connect(): useMultiFileAuthState returns and makeWASocket makes the
\* socket, or it throws and the catch block runs.
Whats_connect_socket ==
    /\ wConnects > 0
    /\ wConnects' = wConnects - 1
    /\ \/ /\ Len(wSockets) < MaxSockets
          /\ wSockets' = Append(wSockets, "opening")
          /\ wClient' = Len(wSockets) + 1
          /\ UNCHANGED <<wIsConnecting, wStatus>>
       \/ /\ wStatus' = "failed"
          /\ wIsConnecting' = FALSE
          /\ UNCHANGED <<wSockets, wClient>>
    /\ wCall' = NoWCall
    /\ UNCHANGED <<wIsConnected, wAttempts, wTimers, wLogouts>>
    /\ UNCHANGED <<bVars, pVars, jVars, kVars, qVars, wPendingVars>>

\* connection.update with connection === 'open' from socket i.
Whats_open(i) ==
    /\ wSockets[i] = "opening"
    /\ wSockets' = [wSockets EXCEPT ![i] = "open"]
    /\ wStatus' = "connected"
    /\ wIsConnected' = TRUE
    /\ wIsConnecting' = FALSE
    /\ wAttempts' = 0
    /\ wCall' = NoWCall
    /\ UNCHANGED <<wConnects, wTimers, wClient, wLogouts>>
    /\ UNCHANGED <<bVars, pVars, jVars, kVars, qVars, wPendingVars>>

\* `statusCode !== DisconnectReason.loggedOut &&
\*  this.reconnectAttempts < this.maxReconnectAttempts`
shouldReconnect(statusCode) ==
    statusCode # loggedOut /\ wAttempts < maxReconnectAttempts

\* connection.update with connection === 'close' from socket i.
Whats_close(i, statusCode) ==
    /\ wSockets[i] \in {"opening", "open"}
    /\ wSockets' = [wSockets EXCEPT ![i] = "closed"]
    /\ CASE statusCode = 401 ->
              /\ wStatus' = "disconnected"
              /\ wIsConnected' = FALSE
              /\ wIsConnecting' = FALSE
              /\ UNCHANGED <<wAttempts, wTimers>>
         [] statusCode \in {515, 440} ->
              /\ wTimers < MaxReconnectTimers
              /\ wStatus' = IF statusCode = 515 THEN "connecting"
                             ELSE "reconnecting"
              /\ wIsConnected' = FALSE
              /\ wIsConnecting' = FALSE
              /\ wTimers' = wTimers + 1
              /\ UNCHANGED wAttempts
         [] OTHER ->
              IF shouldReconnect(statusCode)
              THEN /\ wTimers < MaxReconnectTimers
                   /\ wAttempts' = wAttempts + 1
                   /\ wStatus' = "reconnecting"
                   /\ wTimers' = wTimers + 1
                   /\ UNCHANGED <<wIsConnected, wIsConnecting>>
              ELSE /\ wStatus' = "disconnected"
                   /\ wIsConnected' = FALSE
                   /\ wIsConnecting' = FALSE
                   /\ wAttempts' = 0
                   /\ UNCHANGED wTimers
    /\ wCall' = NoWCall
    /\ UNCHANGED <<wConnects, wClient, wLogouts>>
    /\ UNCHANGED <<bVars, pVars, jVars, kVars, qVars, wPendingVars>>

\* forceQR of the later client (part_007) once disconnect() is past its
\* logout.  disconnect drops this.client; threw: a listener of
\* 'statusChange' threw in disconnect, which rethrows, and forceQR's empty
\* catch skips the rest of its try block.  Then `await this.connect()`.
forceQRAfterLogout(threw) ==
    /\ threw => wClient # 0
    /\ wClient' = 0
    /\ wIsConnected' = FALSE
    /\ IF threw
       THEN connectFrom("forceQR", wIsConnecting, "error")
       ELSE connectFrom("forceQR", TRUE, "connecting")
    /\ UNCHANGED <<wAttempts, wSockets, wTimers>>

\* forceQR up to `await this.client.logout()`, which disconnect calls
\* only for a socket that is open.
Whats_forceQR ==
    /\ wLogouts = 0
    /\ IF wClient # 0 /\ wSockets[wClient] = "open"
       THEN /\ wLogouts' = 1
            /\ wCall' = NoWCall
            /\ UNCHANGED <<wIsConnecting, wIsConnected, wStatus, wAttempts,
                           wSockets, wConnects, wTimers, wClient>>
       ELSE /\ \E threw \in BOOLEAN : forceQRAfterLogout(threw)
            /\ UNCHANGED wLogouts
    /\ UNCHANGED <<bVars, pVars, jVars, kVars, qVars, wPendingVars>>

\* logout returns or throws (the error is ignored).
Whats_logout_returns ==
    /\ wLogouts = 1
    /\ wLogouts' = 0
    /\ \E threw \in BOOLEAN : forceQRAfterLogout(threw)
    /\ UNCHANGED <<bVars, pVars, jVars, kVars, qVars, wPendingVars>>

WNext ==
    \/ Whats_connect
    \/ Whats_reconnectTimer
    \/ Whats_connect_socket
    \/ \E i \in DOMAIN wSockets : Whats_open(i)
    \/ \E i \in DOMAIN wSockets, statusCode \in StatusCodes :
          Whats_close(i, statusCode)

\* ------------------------------------------ pending jobs of the client
\* setPendingJob(sender, job): sets the entry and starts a timer that
\* deletes the sender's entry; no earlier timer is cleared.
setPendingJob(sender, job) ==
    /\ wPendingJobs' = [wPendingJobs EXCEPT
                           ![sender] = [job |-> job, stored |-> wNow]]
    /\ wPendingTimers' = wPendingTimers \cup
           {[sender |-> sender, job |-> job, due |-> wNow + autoRemoveAfter]}

removePendingJob(sender) ==
    wPendingJobs' = [wPendingJobs EXCEPT ![sender] = NoPending]

\* handleDocumentMessage once the document is saved: the pending job is
\* stored for the sender.
Pending_handleDocumentMessage(sender) ==
    /\ wDocuments < MaxPendingJobs
    /\ wDocuments' = wDocuments + 1
    /\ setPendingJob(sender, wDocuments + 1)
    /\ wCall' = NoWCall
    /\ UNCHANGED <<wIsConnecting, wIsConnected, wStatus, wAttempts, wSockets,
                   wConnects, wTimers, wClient, wLogouts, wTexts, wNow>>
    /\ UNCHANGED <<bVars, pVars, jVars, kVars, qVars>>

\* handleTextMessage up to `await printQueue.addJob(updatedJob)`: the
\* branch of a sender with a pending job.
Pending_handleTextMessage(sender) ==
    /\ wPendingJobs[sender] # NoPending
    /\ sender \notin wTexts
    /\ wTexts' = wTexts \cup {sender}
    /\ wCall' = NoWCall
    /\ UNCHANGED <<wIsConnecting, wIsConnected, wStatus, wAttempts, wSockets,
                   wConnects, wTimers, wClient, wLogouts, wPendingJobs,
                   wPendingTimers, wDocuments, wNow>>
    /\ UNCHANGED <<bVars, pVars, jVars, kVars, qVars>>

\* handleTextMessage after the job is queued and the confirmation sent:
\* this.removePendingJob(sender).
Pending_handleTextMessage_done(sender) ==
    /\ sender \in wTexts
    /\ wTexts' = wTexts \ {sender}
    /\ removePendingJob(sender)
    /\ wCall' = NoWCall
    /\ UNCHANGED <<wIsConnecting, wIsConnected, wStatus, wAttempts, wSockets,
                   wConnects, wTimers, wClient, wLogouts, wPendingTimers,
                   wDocuments, wNow>>
    /\ UNCHANGED <<bVars, pVars, jVars, kVars, qVars>>

\* The callback of setPendingJob's timer, run when the timer is due.
Pending_autoRemove(tm) ==
    /\ tm \in wPendingTimers
    /\ tm.due <= wNow
    /\ wPendingTimers' = wPendingTimers \ {tm}
    /\ removePendingJob(tm.sender)
    /\ wCall' = NoWCall
    /\ UNCHANGED <<wIsConnecting, wIsConnected, wStatus, wAttempts, wSockets,
                   wConnects, wTimers, wClient, wLogouts, wTexts, wDocuments,
                   wNow>>
    /\ UNCHANGED <<bVars, pVars, jVars, kVars, qVars>>

\* A minute passes; the timers that are due run first.
Pending_minute ==
    /\ wNow < MaxMinutes
    /\ \A tm \in wPendingTimers : tm.due > wNow
    /\ wNow' = wNow + 1
    /\ wCall' = NoWCall
    /\ UNCHANGED <<wIsConnecting, wIsConnected, wStatus, wAttempts, wSockets,
                   wConnects, wTimers, wClient, wLogouts, wPendingJobs,
                   wPendingTimers, wTexts, wDocuments>>
    /\ UNCHANGED <<bVars, pVars, jVars, kVars, qVars>>

PendingNext ==
    \/ \E sender \in Senders : Pending_handleDocumentMessage(sender)
    \/ \E sender \in Senders : Pending_handleTextMessage(sender)
    \/ \E sender \in Senders : Pending_handleTextMessage_done(sender)
    \/ \E tm \in wPendingTimers : Pending_autoRemove(tm)
    \/ Pending_minute

\* ================================================== JobManager
maxRetries == 3
ManagedIds == 1..MaxManagedJobs

\* added: the number of jobs the step handed to printQueue.addJob.
JCall(op, id, outcome, added) ==
    [op |-> op, id |-> id, outcome |-> outcome, added |-> added]
NoJCall == JCall("", 0, "", 0)
CannotBeRetried == "Job cannot be retried"

JInit ==
    /\ jJobs = <<>>
    /\ jActiveJobs = {}
    /\ jJobHistory = <<>>
    /\ jAwaiting = {}
    /\ jCall = NoJCall

inHistory(id) == \E i \in 1..Len(jJobHistory) : jJobHistory[i] = id

\* Map.delete
deleteFrom(h, id) == SelectSeq(h, LAMBDA x : x # id)

\* Object.assign(job, details)
assign(job, details) ==
    [k \in DOMAIN job |-> IF k \in DOMAIN details THEN details[k] ELSE job[k]]

NoDetails == [k \in {} |-> ""]
Details == {NoDetails, [error |-> "Print error"]}
ManagedStatuses == {"processing", "completed", "failed", "cancelled"}

\* createJob up to the await of printQueue.addJob.
Jobs_createJob ==
    /\ Len(jJobs) < MaxManagedJobs
    /\ LET id == Len(jJobs) + 1
       IN  /\ jJobs' = Append(jJobs, [status |-> "created", retryCount |-> 0,
                                      error |-> ""])
           /\ jActiveJobs' = jActiveJobs \cup {id}
           /\ jAwaiting' = jAwaiting \cup
                              {[op |-> "createJob", id |-> id]}
           /\ jCall' = JCall("createJob", id, "addJob", 1)
    /\ UNCHANGED jJobHistory
    /\ UNCHANGED <<bVars, pVars, wVars, kVars, qVars>>

\* printQueue.addJob returns the queue item, or throws when its save failed;
\* createJob and retryJob return the job or pass the error on.
Jobs_addJob_returns(c) ==
    /\ c \in jAwaiting
    /\ jAwaiting' = jAwaiting \ {c}
    /\ \E outcome \in {"ok", "throw"} : jCall' = JCall(c.op, c.id, outcome, 0)
    /\ UNCHANGED <<jJobs, jActiveJobs, jJobHistory>>
    /\ UNCHANGED <<bVars, pVars, wVars, kVars, qVars>>

\* updateJobStatus, with _moveToHistory for a final status.
Jobs_updateJobStatus(id, status, details) ==
    /\ IF id \in jActiveJobs
       THEN /\ jJobs' = [jJobs EXCEPT ![id] =
                            assign([jJobs[id] EXCEPT !.status = status],
                                   details)]
            /\ IF status \in {"completed", "failed", "cancelled"}
               THEN /\ jJobHistory' = Append(jJobHistory, id)
                    /\ jActiveJobs' = jActiveJobs \ {id}
               ELSE UNCHANGED <<jJobHistory, jActiveJobs>>
            /\ jCall' = JCall("updateJobStatus", id, "ok", 0)
       ELSE /\ jCall' = JCall("updateJobStatus", id, "null", 0)
            /\ UNCHANGED <<jJobs, jJobHistory, jActiveJobs>>
    /\ UNCHANGED jAwaiting
    /\ UNCHANGED <<bVars, pVars, wVars, kVars, qVars>>

canRetryAtLimit(job) == job.retryCount <= maxRetries

\* `job.retryCount >= this.maxRetries` makes retryJob throw.
canRetry(job) == job.retryCount < maxRetries

\* retryJob up to the await of printQueue.addJob.
Jobs_retryJob(id) ==
    /\ IF inHistory(id) /\ canRetry(jJobs[id])
       THEN /\ jJobs' = [jJobs EXCEPT
                            ![id].retryCount = jJobs[id].retryCount + 1,
                            ![id].status = "pending"]
            /\ jActiveJobs' = jActiveJobs \cup {id}
            /\ jJobHistory' = deleteFrom(jJobHistory, id)
            /\ jAwaiting' = jAwaiting \cup
                               {[op |-> "retryJob", id |-> id]}
            /\ jCall' = JCall("retryJob", id, "addJob", 1)
       ELSE /\ jCall' = JCall("retryJob", id, CannotBeRetried, 0)
            /\ UNCHANGED <<jJobs, jActiveJobs, jJobHistory, jAwaiting>>
    /\ UNCHANGED <<bVars, pVars, wVars, kVars, qVars>>

JNext ==
    \/ Jobs_createJob
    \/ \E c \in jAwaiting : Jobs_addJob_returns(c)
    \/ \E id \in ManagedIds, status \in ManagedStatuses, details \in Details :
          Jobs_updateJobStatus(id, status, details)
    \/ \E id \in ManagedIds : Jobs_retryJob(id)

\* ================================================== JobBatcher
batchLimit == 5

\* job.instructions as JobBatcher reads it; colorPages is the array's
\* length.
OneCopy == [paperSize |-> "a4", paperType |-> "plain", colorPages |-> 0,
            copies |-> 1, priority |-> "normal"]
ThirtyCopies == [paperSize |-> "a4", paperType |-> "plain", colorPages |-> 0,
                 copies |-> 30, priority |-> "high"]
BatcherInstrs == {OneCopy, ThirtyCopies}
Files == {"file1", "file2"}

\* JSON.stringify({paperSize, paperType, colorPages, copies}): the four
\* fields and nothing else of the job.
getBatchKey(job) ==
    <<job.instructions.paperSize, job.instructions.paperType,
      job.instructions.colorPages, job.instructions.copies>>
BatchKeys == {getBatchKey([instructions |-> i]) : i \in BatcherInstrs}

RECURSIVE sumCopies(_)
sumCopies(jobs) ==
    IF jobs = <<>> THEN 0
    ELSE Head(jobs).instructions.copies + sumCopies(Tail(jobs))

\* {...firstJob, instructions: {...firstJob.instructions, copies, batchSize}}
combineJobs(jobs) ==
    [id |-> jobs[1].id,
     fileId |-> jobs[1].fileId,
     instructions |->
        [paperSize |-> jobs[1].instructions.paperSize,
         paperType |-> jobs[1].instructions.paperType,
         colorPages |-> jobs[1].instructions.colorPages,
         priority |-> jobs[1].instructions.priority,
         copies |-> sumCopies(jobs),
         batchSize |-> Len(jobs)]]

clearTimeoutSkipped(timers, id) == timers

\* clearTimeout: the timer, if it is still set, will not fire.
clearTimeout(timers, id) == {tm \in timers : tm.id # id}

hasBatch(bs, key) == \E i \in 1..Len(bs) : bs[i].key = key
getBatch(bs, key) == bs[CHOOSE i \in 1..Len(bs) : bs[i].key = key]
deleteBatch(bs, key) == SelectSeq(bs, LAMBDA b : b.key # key)

\* by: "addToBatch", "timer" or "cancelBatch"; timer: the timer that fired;
\* batch: the batch the step took out of this.batches (0 for none), named
\* by its timeout; submitted: the jobs given to printQueue.addJob; from:
\* the jobs of the batch; cancelled: the jobs of a cancelled batch.
KCall(by, timer, batch, submitted, from, cancelled) ==
    [by |-> by, timer |-> timer, batch |-> batch, submitted |-> submitted,
     from |-> from, cancelled |-> cancelled]
NoKCall == KCall("", 0, 0, <<>>, <<>>, <<>>)

KInit ==
    /\ kBatches = <<>>
    /\ kTimers = {}
    /\ kNextJob = 1
    /\ kCall = NoKCall

\* processBatch(batchKey) called by `by` with the batches bs and the
\* timers tms: nothing without a batch of that key; else the batch is
\* deleted, its timer cleared and the combined job given to the print
\* queue.
processBatch(by, timer, key, bs, tms) ==
    IF ~hasBatch(bs, key)
    THEN /\ kBatches' = bs
         /\ kTimers' = tms
         /\ kCall' = KCall(by, timer, 0, <<>>, <<>>, <<>>)
    ELSE LET batch == getBatch(bs, key)
         IN  /\ kBatches' = deleteBatch(bs, key)
             /\ kTimers' = clearTimeout(tms, batch.timeout)
             /\ kCall' = KCall(by, timer, batch.timeout,
                               <<combineJobs(batch.jobs)>>, batch.jobs, <<>>)

Batcher_addToBatch(fileId, instr) ==
    /\ kNextJob <= MaxBatcherJobs
    /\ kNextJob' = kNextJob + 1
    /\ LET job == [id |-> kNextJob, fileId |-> fileId, instructions |-> instr]
           key == getBatchKey(job)
           isNew == ~hasBatch(kBatches, key)
           bs1 == IF isNew
                  THEN Append(kBatches, [key |-> key, jobs |-> <<>>,
                                         timeout |-> kNextJob])
                  ELSE kBatches
           tms1 == IF isNew THEN kTimers \cup {[id |-> kNextJob, key |-> key]}
                   ELSE kTimers
           bs2 == [i \in 1..Len(bs1) |->
                     IF bs1[i].key = key
                     THEN [bs1[i] EXCEPT !.jobs = Append(@, job)]
                     ELSE bs1[i]]
           batch == getBatch(bs2, key)
       IN  IF Len(batch.jobs) >= batchLimit
           THEN processBatch("addToBatch", 0, key, bs2,
                             clearTimeout(tms1, batch.timeout))
           ELSE /\ kBatches' = bs2
                /\ kTimers' = tms1
                /\ kCall' = KCall("addToBatch", 0, 0, <<>>, <<>>, <<>>)
    /\ UNCHANGED <<bVars, pVars, wVars, jVars, qVars>>

\* A timer that is set fires: () => this.processBatch(batchKey).
Batcher_timer(tm) ==
    /\ tm \in kTimers
    /\ processBatch("timer", tm.id, tm.key, kBatches, kTimers \ {tm})
    /\ UNCHANGED kNextJob
    /\ UNCHANGED <<bVars, pVars, wVars, jVars, qVars>>

\* cancelBatch: the batch is deleted and its timer cleared; the jobs are
\* then given to printQueue.cancelJob one by one.
Batcher_cancelBatch(key) ==
    /\ IF hasBatch(kBatches, key)
       THEN LET batch == getBatch(kBatches, key)
            IN  /\ kBatches' = deleteBatch(kBatches, key)
                /\ kTimers' = clearTimeout(kTimers, batch.timeout)
                /\ kCall' = KCall("cancelBatch", 0, batch.timeout, <<>>,
                                  <<>>, batch.jobs)
       ELSE /\ kCall' = KCall("cancelBatch", 0, 0, <<>>, <<>>, <<>>)
            /\ UNCHANGED <<kBatches, kTimers>>
    /\ UNCHANGED kNextJob
    /\ UNCHANGED <<bVars, pVars, wVars, jVars, qVars>>

KNext ==
    \/ \E fileId \in Files, instr \in BatcherInstrs :
          Batcher_addToBatch(fileId, instr)
    \/ \E tm \in kTimers : Batcher_timer(tm)
    \/ \E key \in BatchKeys : Batcher_cancelBatch(key)

\* ================================================== QRManager
QCall(op, forced) == [op |-> op, forced |-> forced]
NoQCall == QCall("", FALSE)

QInit ==
    /\ qCurrentQR = 0
    /\ qIsGenerating = FALSE
    /\ qPending = {}
    /\ qWaitTimers = {}
    /\ qGens = {}
    /\ qExpiry = FALSE
    /\ qUpdated = FALSE
    /\ qNextReq = 1
    /\ qCall = NoQCall

\* The generateNewQR calls that go on when the promises of the requests
\* rs are settled: a call that waits for one of them returns or throws.
stillGenerating(gens, rs) ==
    {g \in gens : ~(g.pc = "wait" /\ g.id \in rs)}

\* waitForQR called by request r: the request is pushed and its timer set;
\* with a currentQR the timer is cleared and the request removed at once.
waitForQR(r) ==
    IF qCurrentQR # 0
    THEN UNCHANGED <<qPending, qWaitTimers>>
    ELSE /\ qPending' = qPending \cup {r}
         /\ qWaitTimers' = qWaitTimers \cup {r}

generateNewQRUnguarded(r, op) ==
    /\ qIsGenerating' = TRUE
    /\ qCurrentQR' = 0
    /\ qExpiry' = FALSE
    /\ qGens' = qGens \cup {[id |-> r, pc |-> "forceQR"]}
    /\ qCall' = QCall(op, TRUE)
    /\ UNCHANGED <<qPending, qWaitTimers>>

\* generateNewQR up to `await this.whatsappClient.forceQR()`.
generateNewQR(r, op) ==
    IF qIsGenerating
    THEN /\ waitForQR(r)
         /\ qCall' = QCall(op, FALSE)
         /\ UNCHANGED <<qIsGenerating, qCurrentQR, qExpiry, qGens>>
    ELSE generateNewQRUnguarded(r, op)

\* getQR; fresh: the QR has more than 10 of its 120 seconds left.
Qr_getQR(fresh) ==
    /\ qNextReq <= MaxQRRequests
    /\ qNextReq' = qNextReq + 1
    /\ IF qCurrentQR # 0 /\ fresh
       THEN /\ qCall' = QCall("getQR", FALSE)
            /\ UNCHANGED <<qCurrentQR, qIsGenerating, qPending, qWaitTimers,
                           qGens, qExpiry>>
       ELSE generateNewQR(qNextReq, "getQR")
    /\ UNCHANGED qUpdated
    /\ UNCHANGED <<bVars, pVars, wVars, jVars, kVars>>

Qr_generateNewQR ==
    /\ qNextReq <= MaxQRRequests
    /\ qNextReq' = qNextReq + 1
    /\ generateNewQR(qNextReq, "generateNewQR")
    /\ UNCHANGED qUpdated
    /\ UNCHANGED <<bVars, pVars, wVars, jVars, kVars>>

\* forceQR returns and generateNewQR calls waitForQR(15000), or forceQR
\* throws and the catch rejects the pending requests.
Qr_forceQR_returns(g) ==
    /\ g \in qGens
    /\ g.pc = "forceQR"
    /\ \/ /\ waitForQR(g.id)
          /\ qGens' = IF qCurrentQR # 0 THEN qGens \ {g}
                      ELSE (qGens \ {g}) \cup {[id |-> g.id, pc |-> "wait"]}
          /\ UNCHANGED qIsGenerating
       \/ /\ qIsGenerating' = FALSE
          /\ qPending' = {}
          /\ qGens' = stillGenerating(qGens \ {g}, qPending)
          /\ UNCHANGED qWaitTimers
    /\ qCall' = QCall("forceQR returns", FALSE)
    /\ UNCHANGED <<qCurrentQR, qExpiry, qUpdated, qNextReq>>
    /\ UNCHANGED <<bVars, pVars, wVars, jVars, kVars>>

\* The client emits 'qr'.  tooSoon: less than qrUpdateDebounce has passed
\* since the last QR that was taken.
Qr_handleNewQR(qr, tooSoon) ==
    /\ IF qCurrentQR = qr \/ (qUpdated /\ tooSoon)
       THEN UNCHANGED <<qCurrentQR, qIsGenerating, qPending, qGens, qExpiry,
                        qUpdated>>
       ELSE /\ qCurrentQR' = qr
            /\ qUpdated' = TRUE
            /\ qIsGenerating' = FALSE
            /\ qExpiry' = TRUE
            /\ qPending' = {}
            /\ qGens' = stillGenerating(qGens, qPending)
    /\ qCall' = QCall("handleNewQR", FALSE)
    /\ UNCHANGED <<qWaitTimers, qNextReq>>
    /\ UNCHANGED <<bVars, pVars, wVars, jVars, kVars>>

\* The timer of a waitForQR call fires: the request leaves the pending
\* ones, isGenerating is reset and the promise rejected; when the promise
\* was the one generateNewQR awaits, its catch rejects the others.
Qr_waitTimer(r) ==
    /\ r \in qWaitTimers
    /\ qWaitTimers' = qWaitTimers \ {r}
    /\ qIsGenerating' = FALSE
    /\ IF r \in qPending /\ [id |-> r, pc |-> "wait"] \in qGens
       THEN /\ qPending' = {}
            /\ qGens' = stillGenerating(qGens, qPending)
       ELSE /\ qPending' = qPending \ {r}
            /\ UNCHANGED qGens
    /\ qCall' = QCall("timeout", FALSE)
    /\ UNCHANGED <<qCurrentQR, qExpiry, qUpdated, qNextReq>>
    /\ UNCHANGED <<bVars, pVars, wVars, jVars, kVars>>

Qr_clearQR ==
    /\ qCurrentQR' = 0
    /\ qIsGenerating' = FALSE
    /\ qExpiry' = FALSE
    /\ qPending' = {}
    /\ qGens' = stillGenerating(qGens, qPending)
    /\ qCall' = QCall("clearQR", FALSE)
    /\ UNCHANGED <<qWaitTimers, qUpdated, qNextReq>>
    /\ UNCHANGED <<bVars, pVars, wVars, jVars, kVars>>

\* this.qrTimeout fires after 115 seconds.
Qr_expired ==
    /\ qExpiry
    /\ qExpiry' = FALSE
    /\ qCurrentQR' = 0
    /\ qCall' = QCall("expired", FALSE)
    /\ UNCHANGED <<qIsGenerating, qPending, qWaitTimers, qGens, qUpdated,
                   qNextReq>>
    /\ UNCHANGED <<bVars, pVars, wVars, jVars, kVars>>

QNext ==
    \/ \E fresh \in BOOLEAN : Qr_getQR(fresh)
    \/ Qr_generateNewQR
    \/ \E g \in qGens : Qr_forceQR_returns(g)
    \/ \E qr \in 1..MaxQRs, tooSoon \in BOOLEAN : Qr_handleNewQR(qr, tooSoon)
    \/ \E r \in qWaitTimers : Qr_waitTimer(r)
    \/ Qr_clearQR
    \/ Qr_expired

Init == BInit /\ PInit /\ WInit /\ JInit /\ KInit /\ QInit
SpecBatch == Init /\ [][BNext]_vars
SpecWhatsApp == Init /\ [][WNext]_vars

\* The client with the QR manager's calls of forceQR.
ForceQRNext ==
    \/ WNext
    \/ Whats_forceQR
    \/ Whats_logout_returns
SpecForceQR == Init /\ [][ForceQRNext]_vars
SpecPending == Init /\ [][PendingNext]_vars
SpecPersist == Init /\ [][PNext]_vars
SpecJobs == Init /\ [][JNext]_vars
SpecBatcher == Init /\ [][KNext]_vars
SpecQR == Init /\ [][QNext]_vars

\* JobBatcher with its timers: a timer that stays set fires after
\* batchTimeout.
SpecBatcherFair == SpecBatcher /\ WF_vars(\E tm \in kTimers : Batcher_timer(tm))

\* The batch queue with its timer: setInterval calls _processBatches every
\* BATCH_INTERVAL, so a tick that can start does start.  Nothing obliges
\* the printer discovery, a document fetch or a print command to return.
SpecBatchFair ==
    SpecBatch /\ WF_vars(\E t \in Ticks : Batch_processBatches(t))

\* The persistent queue under fair scheduling: a timer that was set fires
\* (setTimeout at the end of processNextJob), the readFile of initialize
\* returns, and every writeFile, document fetch and print call returns.
SpecPersistFair ==
    /\ SpecPersist
    /\ WF_vars(Persist_timer)
    /\ WF_vars(Persist_loadQueue)
    /\ WF_vars(\E w \in pWrites : Persist_saveQueue_done(w))
    /\ WF_vars(\E t \in Ticks : Persist_processJob_document(t))
    /\ WF_vars(\E t \in Ticks : Persist_processJob_print(t))

\* The batch queue with subscribers to its 'statusUpdated' events, in the
\* runs in which changeJobPriority (which does not emit that event) is not
\* called.
SubscribersNext ==
    \/ \E instr \in BInstrs : Batch_addJob(instr)
    \/ \E t \in Ticks : Batch_processBatches(t)
    \/ \E t \in Ticks : Batch_createBatches(t)
    \/ \E t \in Ticks : Batch_executeJob_document(t)
    \/ \E t \in Ticks : Batch_executeJob_print(t)
    \/ \E id \in JobIds : Batch_cancelJob(id)
    \/ \E id \in JobIds : Batch_retryJob(id)
    \/ \E id \in JobIds : Batch_removeJob(id)
    \/ \E kind \in ListenerKinds : Batch_on(kind)
SpecBatchSubscribers == Init /\ [][SubscribersNext]_vars

\* The two queues are separate objects that share no variable, so a state
\* of the pair is reachable exactly when each half is reachable on its own.
\* SpecBoth explores each queue while the other one rests in its initial
\* state; it serves properties that are a conjunction of one property of
\* each queue.
BothNext ==
    \/ PInit /\ BNext
    \/ BInit /\ PNext
SpecBoth == Init /\ [][BothNext]_vars
\* ======================================================== properties
bStatus(j) == bJobs[j].status
Running(tick) == {t \in Ticks : tick[t].pc # "idle"}
Waiting == {"pending", "queued"}

\* C1: in the batch queue every change of a job's status follows one of
\* the edges queued->processing, processing->completed, processing->failed,
\* queued->cancelled, failed->queued.
C1_OnlyLegalEdges ==
    [][\A j \in bPresent \cap bPresent' :
          bStatus(j) # bStatus(j)' =>
              <<bStatus(j), bStatus(j)'>> \in
                  { <<"queued", "processing">>, <<"processing", "completed">>,
                    <<"processing", "failed">>, <<"queued", "cancelled">>,
                    <<"failed", "queued">> }]_vars

\* C2: in the batch queue at most one job has status 'processing' in every
\* reachable state.
C2_AtMostOneProcessing ==
    Cardinality({j \in bPresent : bStatus(j) = "processing"}) <= 1

\* C2 witness: a job is processing with its print call pending while
\* another job, which the running tick does not hold, is queued.
C2_Witness ==
    \E t \in Ticks, j \in bPresent :
        /\ bTick[t].pc = "print"
        /\ bTick[t].cur \in bPresent
        /\ bStatus(bTick[t].cur) = "processing"
        /\ j \notin heldBy(bTick[t])
        /\ bStatus(j) = "queued"

\* C3: ticks are single-flight in both queues: at most one invocation of
\* _processBatches, and at most one of processNextJob, is past its guard,
\* and isProcessing is set while it is.
C3_SingleFlight ==
    /\ Cardinality(Running(bTick)) <= 1
    /\ Cardinality(Running(pTick)) <= 1
    /\ Running(bTick) # {} => bIsProcessing
    /\ Running(pTick) # {} => pIsProcessing

\* C3 witness: processNextJob is about to be called by a timer while an
\* earlier invocation waits for its print call; the call returns at the
\* guard and leaves this state as it is.
C3_Witness ==
    /\ pTimers > 0
    /\ pIsProcessing
    /\ \E t \in Ticks : pTick[t].pc = "print"
    /\ \E t \in Ticks : pTick[t].pc = "idle"

\* C4: a job cancelled while queued (and not retried since) is never
\* executed: it does not become 'processing'.
C4_CancelledQueuedNeverRuns ==
    \A j \in bCancelledQ : bStatus(j) # "processing"

\* C5: cancelJob on a processing job does not make it 'cancelled' at once,
\* and the cancellation is honored afterwards: a cancelled job is not
\* turned 'completed' or 'failed' by the execution that was in flight.
C5_CancelDeferredAndHonored ==
    [][\A j \in bPresent \cap bPresent' :
          /\ bStatus(j) = "processing" => bStatus(j)' # "cancelled"
          /\ bStatus(j) = "cancelled" => bStatus(j)' \notin {"completed", "failed"}]_vars

\* C6: retryJob takes effect only on a job whose status is 'failed': in
\* the batch queue a job becomes 'queued' again only from 'failed'; in the
\* persistent queue a job goes from completedJobs back to the queue only
\* when its status is 'failed'.
C6_RetryOnlyFromFailed ==
    [][/\ \A j \in bPresent \cap bPresent' :
             (bStatus(j) # "queued" /\ bStatus(j)' = "queued")
                 => bStatus(j) = "failed"
       /\ \A id \in idsOf(pCompleted) \cap idsOf(pQueue') :
             pCompleted[find(pCompleted, id)].status = "failed"]_vars

\* C7: no acknowledged job is lost: whenever the data file holds a
\* snapshot, every job whose addJob returned (and that was not removed) is
\* in it.
C7_AckedJobsInFile ==
    pFile.state = "valid" =>
        \A id \in pAcked : id \in idsOf(pFile.queue) \cup idsOf(pFile.completed)

\* C8: a job whose addJob threw because the save failed is not in the
\* in-memory queue.
C8_RejectedJobNotQueued ==
    \A id \in pRejected : id \notin idsOf(pQueue) \cup idsOf(pCompleted)

\* C9: the data file is never a partial snapshot: it is absent or it is a
\* complete snapshot written by saveQueue.
C9_FileNeverPartial ==
    pFile.state # "partial"

\* C10: when processNextJob selects a job, no waiting job of the queue has
\* a strictly higher priority than the selected one.
C10_PriorityPrecedence ==
    [][\A t \in Ticks :
          (pTick[t].pc = "idle" /\ pTick'[t].pc = "saveProcessing") =>
              \A i \in 1..Len(pQueue') :
                  pQueue'[i].status \in Waiting =>
                      pQueue'[i].priority
                          <= pQueue'[find(pQueue', pTick'[t].job)].priority]_vars

\* C10 witness: the job selected was submitted after a job of lower
\* priority that is still pending.
C10_Witness ==
    \E t \in Ticks, i \in 1..Len(pQueue) :
        /\ pTick[t].pc = "saveProcessing"
        /\ pTick[t].job \in idsOf(pQueue)
        /\ pQueue[i].status = "pending"
        /\ pQueue[i].id < pTick[t].job
        /\ pQueue[i].priority < pQueue[find(pQueue, pTick[t].job)].priority
        /\ pQueue[i].retryCount = 0
\* processNextJob takes its job in this step: invocation t passes the guard
\* and selects pTick'[t].job.
selects(t) == pTick[t].pc = "idle" /\ pTick'[t].pc = "saveProcessing"

\* C11: among the waiting jobs of equal priority processNextJob selects the
\* one created first.  createdAt is set once, by addJob, and ids are issued
\* in the order of the addJob calls, so the earliest createdAt is the
\* smallest id.
C11_FifoTieBreak ==
    [][\A t \in Ticks :
          selects(t) =>
              LET sel == pQueue'[find(pQueue', pTick'[t].job)]
              IN  \A i \in 1..Len(pQueue') :
                      (pQueue'[i].status \in Waiting
                          /\ pQueue'[i].priority = sel.priority)
                      => sel.id < pQueue'[i].id]_vars
\* _executeJob begins for a job in this step: invocation t of
\* _processBatches sets bTick'[t].cur to 'processing'.
startsJob(t) ==
    /\ bTick'[t].pc = "doc"
    /\ bTick[t].pc # "doc" \/ bTick[t].cur # bTick'[t].cur

\* C12: the jobs a tick of the batch queue took in its snapshot are executed
\* in priority order: when a job is started, every job of the snapshot
\* that is still to be executed has a lower priority score, or the same
\* score and a later submission.
C12_BatchPriorityOrder ==
    [][\A t \in Ticks :
          startsJob(t) =>
              \A k \in idsOfBatches(bTick'[t].batches) :
                  LET pj == calculatePriority(bJobs'[bTick'[t].cur].instr)
                      pk == calculatePriority(bJobs'[k].instr)
                  IN  pk < pj \/ (pk = pj /\ bTick'[t].cur < k)]_vars
\* The job that invocation t of _processBatches is executing fails in this
\* step: _executeJob's catch block runs for it.
failsJob(t) ==
    /\ bTick[t].pc \in {"doc", "print"}
    /\ bEmitted' # <<>>
    /\ bEmitted'[1] = Event("statusUpdated", bTick[t].cur, "failed")

\* C13: when the job a tick is executing fails, the job becomes 'failed'
\* with the error recorded, and the tick goes on: the next job of the same
\* batch or of the next batch is started and no job of the remaining
\* batches is dropped; the tick ends only when no job is left.
C13_PartialBatchIsolation ==
    [][\A t \in Ticks :
          failsJob(t) =>
              LET a == bTick[t].cur
                  bs == bTick[t].batches
              IN  /\ a \in bPresent =>
                         bJobs'[a].status = "failed" /\ bJobs'[a].error # ""
                  /\ bs # <<>> =>
                         /\ bTick'[t].pc = "doc"
                         /\ bTick'[t].cur = Head(bs[1].jobs)
                         /\ bJobs'[bTick'[t].cur].status = "processing"
                         /\ idsOfBatches(bTick'[t].batches)
                               = idsOfBatches(bs) \ {bTick'[t].cur}
                  /\ bs = <<>> => bTick'[t] = IdleTick /\ ~bIsProcessing']_vars

\* C13 witness: job a has just failed for a missing document and the same
\* step started job b of the same tick.
C13_Witness ==
    \E t \in Ticks, a, b \in bPresent :
        /\ a # b
        /\ bEmitted = <<Event("statusUpdated", a, "failed"),
                        Event("statusUpdated", b, "processing")>>
        /\ bStatus(a) = "failed"
        /\ bJobs[a].error = "Document not found"
        /\ bTick[t].pc = "doc"
        /\ bTick[t].cur = b
        /\ bStatus(b) = "processing"
\* C14: acceptJob(id, operator) on a job of the queue whose status is
\* 'pending' or 'queued' sets its status to 'processing' and its acceptedBy
\* to the operator and changes nothing else in the queue; on any other job
\* or an unknown id it throws, changes no job, starts no save and emits no
\* event.
C14_AcceptOnlyWaiting ==
    [][\A id \in PJobIds :
          (pCall'.op = "acceptJob" /\ pCall'.id = id) =>
              IF id \in idsOf(pQueue)
                 /\ pQueue[find(pQueue, id)].status \in Waiting
              THEN /\ pCall'.outcome = "ok"
                   /\ pQueue' = [pQueue EXCEPT
                                    ![find(pQueue, id)].status = "processing",
                                    ![find(pQueue, id)].acceptedBy = "operator"]
                   /\ pCompleted' = pCompleted
              ELSE /\ pCall'.outcome = "throw"
                   /\ pQueue' = pQueue
                   /\ pCompleted' = pCompleted
                   /\ pWrites' = pWrites
                   /\ pEmitted' = <<>>]_vars

\* C14 witness: acceptJob has just thrown for a job that the processing
\* loop had already set to 'processing'; the job has no acceptedBy.
C14_Witness ==
    \E id \in idsOf(pQueue) :
        /\ pCall = Call("acceptJob", id, "throw")
        /\ pQueue[find(pQueue, id)].status = "processing"
        /\ pQueue[find(pQueue, id)].acceptedBy = ""
        /\ \E t \in Ticks : pTick[t].pc # "idle" /\ pTick[t].job = id
\* acceptJob returned this job: it stamped acceptedBy, its save is no longer
\* running, and no save has failed and no restart has happened.
acceptReturned(job) ==
    /\ job.acceptedBy # ""
    /\ pFaults = 0
    /\ \A w \in pWrites : ~(w.who = "acceptJob" /\ w.ref = job.id)

\* C15: a job that acceptJob moved to 'processing' is never selected by
\* processNextJob (and so never sent to the printer by processJob).
C15_AcceptedJobBypassesLoop ==
    [][\A t \in Ticks :
          selects(t) =>
              ~acceptReturned(pQueue'[find(pQueue', pTick'[t].job)])]_vars
\* C16: in the persistent queue at most one job has status 'processing'.
C16_OneProcessingInPersistentQueue ==
    Cardinality({i \in 1..Len(pQueue) : pQueue[i].status = "processing"}) <= 1
\* The retry limit (maxRetries of JobManager).
RetryLimit == 3

\* C17: retries are bounded by the retry limit: no job of the persistent
\* queue has a retryCount greater than 3, because retryJob is refused once
\* the limit is reached.
C17_RetryCountBounded ==
    /\ \A i \in 1..Len(pQueue) : pQueue[i].retryCount <= RetryLimit
    /\ \A i \in 1..Len(pCompleted) : pCompleted[i].retryCount <= RetryLimit
\* C18: cancelJob on a job whose status is already 'cancelled' returns an
\* error, leaves the job unchanged and emits no event.
C18_CancelIsIdempotent ==
    [][\A id \in JobIds :
          (/\ bCall'.op = "cancelJob"
           /\ bCall'.id = id
           /\ id \in bPresent
           /\ bStatus(id) = "cancelled")
          => /\ bCall'.outcome = "throw"
             /\ bJobs'[id] = bJobs[id]
             /\ bEmitted' = <<>>]_vars
\* C19: changeJobPriority on a processing job, or on an unknown id, throws,
\* changes nothing and emits no event; on any other job it sets
\* instructions.priority to the new value, emits priorityChanged, and
\* leaves the job's status, progress and error, and every other job, as
\* they were.
C19_ChangePriorityFrame ==
    [][\A id \in JobIds :
          (bCall'.op = "changeJobPriority" /\ bCall'.id = id) =>
              IF id \notin bPresent \/ bStatus(id) = "processing"
              THEN /\ bCall'.outcome = "throw"
                   /\ bJobs' = bJobs
                   /\ bEmitted' = <<>>
              ELSE /\ bCall'.outcome = "ok"
                   /\ bJobs'[id].instr.priority \in Priorities
                   /\ bEmitted' = <<Event("priorityChanged", id,
                                          bJobs'[id].instr.priority)>>
                   /\ bJobs'[id].status = bJobs[id].status
                   /\ bJobs'[id].progress = bJobs[id].progress
                   /\ bJobs'[id].error = bJobs[id].error
                   /\ \A k \in DOMAIN bJobs \ {id} : bJobs'[k] = bJobs[k]]_vars

\* C19 witness: the priority of a completed job that was not submitted as
\* a 'high' photo job has just been changed to 'high'; the job is still
\* completed with progress 100.
C19_Witness ==
    \E id \in bPresent :
        /\ bCall = Call("changeJobPriority", id, "ok")
        /\ bStatus(id) = "completed"
        /\ bJobs[id].progress = 100
        /\ bJobs[id].instr.priority = "high"
        /\ bJobs[id].instr.paperType = ""
\* C20: no tick blocks for ever: whenever a tick waits for a document
\* fetch or a print call of _executeJob, the tick ends later (isProcessing
\* is false again), even if that call never returns.
C20_TickAlwaysEnds ==
    (\E t \in Ticks : bTick[t].pc \in {"doc", "print"}) ~> ~bIsProcessing
\* C21: a listener that throws does not reach the tick: a job whose print
\* call returned is 'completed' (the first event the step emits for it says
\* so); a job that _executeJob has just started is 'processing' and waits
\* for its document; a tick drops none of the jobs it still has to
\* execute; and no listener misses an event.
C21_SubscriberFailureIsolated ==
    [][/\ \A t \in Ticks :
             (/\ bTick[t].pc = "print"
              /\ bTick[t].cur \in bPresent
              /\ bEmitted' # <<>>
              /\ bEmitted'[1] = Event("statusUpdated", bTick[t].cur, "completed"))
             => bJobs'[bTick[t].cur].status = "completed"
       /\ \A i \in DOMAIN bEmitted' :
             bEmitted'[i].status = "processing" =>
                 \E t \in Ticks :
                     /\ bTick'[t].pc = "doc"
                     /\ bTick'[t].cur = bEmitted'[i].jobId
                     /\ bJobs'[bTick'[t].cur].status = "processing"
       /\ \A t \in Ticks :
             idsOfBatches(bTick[t].batches)
                 \subseteq idsOfBatches(bTick'[t].batches) \cup {bTick'[t].cur}
       /\ bMissed' = <<>>]_vars
\* C22: every change of a job's status in the batch queue sets the job's
\* updatedAt and emits a statusUpdated event with the job's id and its new
\* status.
C22_StatusChangeStampedAndEmitted ==
    [][\A j \in bPresent \cap bPresent' :
          bStatus(j) # bStatus(j)' =>
              /\ j \in bStamped'
              /\ \E i \in DOMAIN bEmitted' :
                     bEmitted'[i] = Event("statusUpdated", j, bJobs'[j].status)]_vars
\* printerConfig: the capabilities of a configured printer; a printer that
\* is not configured (the PDF printer) has none on record.
capabilities(name) ==
    CASE name = "Epson 3250" -> {"color", "bw"}
      [] name = "Canon 6565" -> {"bw"}
      [] OTHER -> {}
Configured == {"Epson 3250", "Canon 6565"}

\* C23: color work goes to color printers only.  For every job in the
\* queue that requires color (colorPages not empty, or paper type photo or
\* glossy), selectBestPrinter does not return a configured printer whose
\* capabilities lack 'color', and no batch a tick has planned for such a
\* printer holds such a job.
C23_ColorJobsOnColorPrinters ==
    /\ \A j \in bPresent :
          (/\ bPrinters.init
           /\ bJobs[j].instr.has
           /\ \/ bJobs[j].instr.colorPages > 0
              \/ bJobs[j].instr.paperType \in {"photo", "glossy"})
          => LET printer == selectBestPrinter(bJobs[j].instr, bPrinters)
             IN  printer \in Configured => "color" \in capabilities(printer)
    /\ \A t \in Ticks : \A i \in 1..Len(bTick[t].batches) :
          \A k \in 1..Len(bTick[t].batches[i].jobs) :
              LET job == bJobs[bTick[t].batches[i].jobs[k]]
                  printer == bTick[t].batches[i].key[1]
              IN  (\/ job.instr.colorPages > 0
                   \/ job.instr.paperType \in {"photo", "glossy"})
                  => (printer \in Configured => "color" \in capabilities(printer))
\* The jobs that invocation t of _processBatches plans in this step (the
\* snapshot given to _createBatches), when the step is the one that plans.
planned(t) ==
    IF bCall' # NoCall \/ ~bPrinters'.init THEN {}
    ELSE IF bTick[t].pc = "init" /\ bTick'[t].pc # "init"
    THEN {bTick[t].todo[i] : i \in 1..Len(bTick[t].todo)}
    ELSE IF bTick[t].pc = "idle" /\ ~bIsProcessing /\ bPrinters.init
            /\ bTick' # bTick
    THEN {j \in bPresent : bStatus(j) = "queued"}
    ELSE {}

\* C24: a queued job for which no available printer has the capability
\* it needs is marked 'failed' with an error when the tick plans its
\* batches, and is neither put in a batch nor started.
C24_NoEligiblePrinterFails ==
    [][\A t \in Ticks : \A j \in planned(t) :
          (~\E i \in 1..Len(bPrinters'.avail) :
               /\ bPrinters'.avail[i].available
               /\ needsColor(bJobs[j].instr) => bPrinters'.avail[i].color)
          => /\ bJobs'[j].status = "failed"
             /\ bJobs'[j].error # ""
             /\ j \notin heldBy(bTick'[t])]_vars
\* C25: retry is never automatic.  A job whose execution failed is not
\* moved back to the waiting jobs, and keeps its status 'failed' and its
\* retryCount for as long as the queue holds it, in every step that is not
\* a retryJob called on it: in the batch queue it stays 'failed' in the
\* Map, in the persistent queue it does not go from completedJobs to the
\* queue.
C25_NoAutomaticRetry ==
    [][/\ \A j \in bPresent \cap bPresent' :
             (bStatus(j) = "failed" /\ bCall' # Call("retryJob", j, "ok"))
             => bJobs'[j].status = "failed"
       /\ \A i \in 1..Len(pCompleted) :
             (/\ pCompleted[i].status = "failed"
              /\ pCall' # Call("retryJob", pCompleted[i].id, "ok"))
             => /\ pCompleted[i].id \notin idsOf(pQueue')
                /\ \A k \in 1..Len(pCompleted') :
                       pCompleted'[k].id = pCompleted[i].id
                       => /\ pCompleted'[k].status = "failed"
                          /\ pCompleted'[k].retryCount
                                = pCompleted[i].retryCount]_vars
\* The progress values that the last step gave to job id while its status
\* was 'processing', in order, after the value the job had before.
progressWhileProcessing(id) ==
    <<pQueue[find(pQueue, id)].progress>>
    \o [i \in 1..Len(SelectSeq(pEmitted', LAMBDA e :
                        /\ "progress" \in DOMAIN e
                        /\ e.jobId = id
                        /\ e.status = "processing")) |->
          SelectSeq(pEmitted', LAMBDA e :
                        /\ "progress" \in DOMAIN e
                        /\ e.jobId = id
                        /\ e.status = "processing")[i].progress]

\* C26: in the persistent queue the progress of a job is in 0..100, does
\* not decrease while the job's status is 'processing', and is 0 when a
\* job of the queue becomes 'processing'.
C26_ProgressMonotone ==
    [][\A i \in 1..Len(pQueue) :
          LET job == pQueue[i]
              ps == progressWhileProcessing(job.id)
          IN  /\ job.progress \in 0..100
              /\ job.status = "processing" =>
                     \A k \in 1..(Len(ps) - 1) : ps[k] <= ps[k + 1]
              /\ (job.status # "processing" /\ job.id \in idsOf(pQueue')
                      /\ pQueue'[find(pQueue', job.id)].status = "processing")
                  => pQueue'[find(pQueue', job.id)].progress = 0]_vars
\* C27: reconnection is automatic.  When a reconnection timer, set by the
\* close handler for a close that allows reconnecting, calls connect(), the
\* call starts a new connection attempt; it returns 'Connection already in
\* progress' only when an attempt really is in progress (a connect() that
\* waits for the authentication state, or a socket that is opening).
C27_ReconnectStartsAttempt ==
    [][(wCall'.op = "connect" /\ wCall'.by = "timer") =>
          \/ wCall'.outcome = "ok"
          \/ wConnects > 0
          \/ \E i \in DOMAIN wSockets : wSockets[i] = "opening"]_vars
\* C28: in the batch queue no job is left in 'processing' once a tick has
\* ended: whenever isProcessing is false no job of the Map has status
\* 'processing' and no tick is under way, whatever selectBestPrinter,
\* getDocument and printDocument returned or threw; and the step that ends
\* a tick leaves isProcessing false.
C28_NoProcessingOutsideTick ==
    [][/\ ~bIsProcessing' =>
              /\ \A j \in bPresent' : bJobs'[j].status # "processing"
              /\ \A t \in Ticks : bTick'[t] = IdleTick
       /\ \A t \in Ticks :
              (bTick[t] # IdleTick /\ bTick'[t] = IdleTick)
              => ~bIsProcessing']_vars

\* C28 witness: a tick has just ended after a print call that threw: the
\* job is 'failed', isProcessing is false and no job is 'processing'.
C28_Witness ==
    /\ ~bIsProcessing
    /\ \A t \in Ticks : bTick[t] = IdleTick
    /\ \E i \in DOMAIN bEmitted :
           /\ bEmitted[i].type = "statusUpdated"
           /\ bEmitted[i].status = "failed"
    /\ \E j \in bPresent :
           bStatus(j) = "failed" /\ bJobs[j].error = "Print error"
    /\ \A j \in bPresent : bStatus(j) # "processing"
\* C29: no starvation in the persistent queue.  A job that addJob or
\* retryJob has put in the queue reaches 'completed' or 'failed' in
\* completedJobs, in the runs in which no writeFile fails and the process
\* is not restarted, unless removeJob takes the job out.
C29_NoStarvation ==
    \A id \in PJobIds :
        (id \in idsOf(pQueue) /\ pCall \in {Call("addJob", id, "ok"),
                                            Call("retryJob", id, "ok")})
        ~> \/ \E i \in 1..Len(pCompleted) :
                  /\ pCompleted[i].id = id
                  /\ pCompleted[i].status \in {"completed", "failed"}
           \/ pCall = Call("removeJob", id, "ok")
           \/ pFaults > 0
\* The step is a call of retryJob(id) up to its await or its throw (and
\* not the return of an earlier call).
retryJobCalled(id) ==
    /\ jCall'.op = "retryJob"
    /\ jCall'.id = id
    /\ jAwaiting \subseteq jAwaiting'

\* C30: in JobManager no job has a retryCount above maxRetries; a
\* retryJob that goes through adds exactly one to the job's retryCount;
\* a retryJob for a job that is not in jobHistory, or whose retryCount has
\* reached maxRetries, throws, changes neither a job nor activeJobs nor
\* jobHistory, and hands nothing to the print queue.
C30_RetryCountBounded ==
    [][/\ \A id \in DOMAIN jJobs' : jJobs'[id].retryCount <= maxRetries
       /\ \A id \in ManagedIds :
             retryJobCalled(id) =>
                /\ jCall'.outcome = "addJob" =>
                       /\ id \in DOMAIN jJobs
                       /\ jJobs'[id].retryCount = jJobs[id].retryCount + 1
                /\ (~inHistory(id) \/ jJobs[id].retryCount >= maxRetries) =>
                       /\ jCall'.outcome = CannotBeRetried
                       /\ jCall'.added = 0
                       /\ jJobs' = jJobs
                       /\ jJobHistory' = jJobHistory
                       /\ jActiveJobs' = jActiveJobs
                       /\ jAwaiting' = jAwaiting]_vars

\* C30 witness: retryJob has just been refused for a job of jobHistory
\* that failed again after its third retry.
C30_Witness ==
    \E id \in DOMAIN jJobs :
        /\ jCall = JCall("retryJob", id, CannotBeRetried, 0)
        /\ inHistory(id)
        /\ jJobs[id].status = "failed"
        /\ jJobs[id].retryCount = maxRetries
\* The places <<batch, position>> of job j in the batches bs.
placesIn(bs, j) ==
    {<<i, k>> \in (1..Len(bs)) \X (1..MaxJobs) :
        k <= Len(bs[i].jobs) /\ bs[i].jobs[k] = j}

\* C31: _createBatches partitions the snapshot of queued jobs, whatever
\* printers were discovered: a queued job with instructions is in exactly
\* one batch, a batch holds jobs of the snapshot only, two jobs are in the
\* same batch exactly when their keys are equal, and the jobs of a batch
\* are in the order of the snapshot.
C31_BatchesPartitionSnapshot ==
    \A env \in PrinterEnvs :
        LET snapshot == queuedJobs
            bs == createBatches(bJobs, snapshot, <<>>, env).batches
            withInstr == {snapshot[i] : i \in
                            {n \in 1..Len(snapshot) : bJobs[snapshot[n]].instr.has}}
        IN  /\ \A j \in withInstr : Cardinality(placesIn(bs, j)) = 1
            /\ idsOfBatches(bs) = withInstr
            /\ \A j1, j2 \in withInstr :
                  (\E i \in 1..Len(bs) : placesIn(bs, j1) \cup placesIn(bs, j2)
                                            \subseteq {i} \X (1..MaxJobs))
                  <=> batchKey(bJobs[j1].instr, env) = batchKey(bJobs[j2].instr, env)
            /\ \A i \in 1..Len(bs) : \A k1, k2 \in 1..Len(bs[i].jobs) :
                  k1 < k2 =>
                     \E n1, n2 \in 1..Len(snapshot) :
                        /\ n1 < n2
                        /\ snapshot[n1] = bs[i].jobs[k1]
                        /\ snapshot[n2] = bs[i].jobs[k2]

\* C31 witness: a tick planned two queued jobs with equal keys into one
\* batch; it executes the first and holds the second in that batch.
C31_Witness ==
    \E t \in Ticks :
        /\ bTick[t].pc = "doc"
        /\ bTick[t].cur = 1
        /\ Len(bTick[t].batches) = 1
        /\ bTick[t].batches[1].jobs = <<2>>
        /\ bTick[t].batches[1].key = batchKey(bJobs[1].instr, bPrinters)
        /\ bJobs[2].instr.has
\* C32: a job submitted while the queue initializes is not lost.  In the
\* step after which addJob has returned the job and initialize has
\* finished (no write failed, no restart), the job is in the queue or in
\* completedJobs, and in one of the two arrays of the data file.
C32_JobAddedDuringInitKept ==
    [][\A id \in PJobIds :
          (/\ id \in pAcked' /\ pInit' = "ready"
           /\ ~(id \in pAcked /\ pInit = "ready")
           /\ pFaults' = 0)
          => /\ id \in idsOf(pQueue') \cup idsOf(pCompleted')
             /\ pFile'.state = "valid"
             /\ id \in idsOf(pFile'.queue) \cup idsOf(pFile'.completed)]_vars
\* C33: in the persistent queue printDocument is called at most once for
\* a job between its addJob, or a retryJob, and the next retryJob: the
\* step in which processJob has the document and calls printDocument is
\* never taken for a job for which it was called already.
C33_PrintedOncePerEntry ==
    [][\A t \in Ticks :
          (pTick[t].pc = "doc" /\ pTick'[t].pc = "print")
          => pTick[t].job \notin pPrinted]_vars
\* The ids of the jobs of a sequence of jobs.
jobIds(jobs) == {jobs[i].id : i \in 1..Len(jobs)}
pendingIn(bs) == UNION {jobIds(bs[i].jobs) : i \in 1..Len(bs)}

\* C34: in JobBatcher a batch is flushed as soon as it holds batchLimit
\* jobs, so a pending batch holds fewer and has its timer set; a flush by
\* addToBatch submits the batchLimit jobs of the batch; a timer flushes
\* only the batch it was set for; and every job of a pending batch is
\* later handed to the print queue with its batch, or cancelled with it.
C34_BatchedJobsForwarded ==
    /\ [](\A i \in 1..Len(kBatches) :
             /\ Len(kBatches[i].jobs) \in 1..(batchLimit - 1)
             /\ [id |-> kBatches[i].timeout, key |-> kBatches[i].key]
                    \in kTimers)
    /\ [][/\ (kCall'.by = "addToBatch" /\ kCall'.submitted # <<>>)
              => Len(kCall'.from) = batchLimit
          /\ (kCall'.by = "timer" /\ kCall'.batch # 0)
              => kCall'.timer = kCall'.batch]_vars
    /\ \A id \in 1..MaxBatcherJobs :
          (id \in pendingIn(kBatches))
          ~> (/\ id \in jobIds(kCall.from) \cup jobIds(kCall.cancelled)
              /\ id \notin pendingIn(kBatches))

\* C34 witness: the timer of a batch that was created after earlier jobs
\* were flushed has fired and flushed that batch, which held fewer than
\* batchLimit jobs.
C34_Witness ==
    /\ kCall.by = "timer"
    /\ kCall.batch > batchLimit
    /\ kCall.timer = kCall.batch
    /\ kCall.submitted # <<>>
    /\ Len(kCall.from) < batchLimit
\* C35: batching loses no document: the combined job that a flush gives
\* to the print queue carries the fileId of every job of the batch.
C35_EveryDocumentSubmitted ==
    \A i \in 1..Len(kCall.from) :
        \E k \in 1..Len(kCall.submitted) :
            kCall.submitted[k].fileId = kCall.from[i].fileId

\* validateOptions: `copies < 1 || copies > 100` is refused.
supportedCopies == 1..100

\* C36: every job of a batch has copies within supportedCopies, and the
\* combined job has as copies their sum, as batchSize their number, and
\* its copies are within supportedCopies too.
C36_CombinedCopiesSupported ==
    /\ \A i \in 1..Len(kBatches) : \A n \in 1..Len(kBatches[i].jobs) :
          kBatches[i].jobs[n].instructions.copies \in supportedCopies
    /\ \A k \in 1..Len(kCall.submitted) :
          /\ kCall.submitted[k].instructions.copies = sumCopies(kCall.from)
          /\ kCall.submitted[k].instructions.batchSize = Len(kCall.from)
          /\ kCall.submitted[k].instructions.copies \in supportedCopies
\* C37: QRManager runs one QR generation at a time: a call that calls
\* whatsappClient.forceQR is made only when no generateNewQR call is in
\* progress.
C37_OneGenerationAtATime ==
    [][qCall'.forced => qGens = {}]_vars
\* C38: forceQR reconnects: the connect() that forceQR calls starts a
\* connection attempt, or finds one in progress (a connect() that waits
\* for the authentication state, or a socket that is opening) that will
\* deliver the 'qr' or 'open' update and release isConnecting.
C38_ForceQRConnects ==
    [][(wCall'.op = "connect" /\ wCall'.by = "forceQR") =>
          \/ wCall'.outcome = "ok"
          \/ wConnects > 0
          \/ \E i \in DOMAIN wSockets : wSockets[i] = "opening"]_vars

\* C39: a pending job stays available for 5 minutes: the timer of
\* setPendingJob removes a sender's pending job only when that job was
\* stored 5 minutes ago or earlier.
C39_PendingJobKeptFiveMinutes ==
    [][\A sender \in Senders :
          (/\ wPendingTimers' # wPendingTimers
           /\ wPendingTimers' \subseteq wPendingTimers
           /\ wPendingJobs[sender] # NoPending
           /\ wPendingJobs'[sender] = NoPending)
          => wNow >= wPendingJobs[sender].stored + autoRemoveAfter]_vars
====
